---- MODULE Spec2Model ----
(***************************************************************************)
(* Model of the catalog-construction engine of autocurator                 *)
(* (src/src/base/IndexedDataset.cpp): IndexedDataset::IndexVariableData    *)
(* and the helpers it calls (DataObjectInfo::FromNcFile, FromNcVar,        *)
(* RemoveRedundantOtherAttributes, SubAxis::operator==).                   *)
(*                                                                         *)
(* A NetCDF file as seen through the reader is a record                    *)
(*   [name, valid, atts, dims, vars]                                       *)
(* atts : sequence of <<attribute name, value>> (ncfile->get_att(a))       *)
(* dims : sequence of [name, size]               (ncFile.get_dim(d))       *)
(* vars : sequence of [name, type, units, atts, dims, values]              *)
(*        units = "" stands for "no units attribute" (get_att == NULL);    *)
(*        dims is the ordered list of dimension names of the variable;     *)
(*        values is the payload of a coordinate variable.                  *)
(* Floating point coordinate values are integers counted in units of the   *)
(* comparison tolerance.                                                   *)
(***************************************************************************)
EXTENDS Integers, Sequences, FiniteSets, TLC

VARIABLES
    disk,               \* the files that exist below the base directory
    m_datainfo,         \* IndexedDataset::m_datainfo (collection attributes)
    m_vecFileInfo,      \* IndexedDataset::m_vecFileInfo, in insertion order
    m_vecAxisInfo,      \* IndexedDataset::m_vecAxisInfo, in insertion order
    m_vecVariableInfo,  \* IndexedDataset::m_vecVariableInfo, in insertion order
    strError,           \* value returned by the last IndexVariableData call,
                        \* or the message of the exception that ended it
    thrown,             \* TRUE once an _EXCEPTION escaped (program ends)
    vecFilenames,       \* argument of the last IndexVariableData call
    sBegin,             \* m_vecFileInfo.size() when that call began
    nDone,              \* position in vecFilenames of the last file that call reached
    preLast,            \* the catalog just before that file was reached
    fileLast,           \* that file as the reader shows it (NoFile if none)
    opened,             \* history: the files given a file id so far, in id order
    openedErr,          \* history: what the ingestion of each of them ended with
    json,               \* the JSON document at the path given to ToJSONFile
                        \* and FromJSONFile, if there is one
    loaded,             \* <<c>> once FromJSONFile ran on a new IndexedDataset,
                        \* c being what it built and how it ended
    proc,               \* for each MPI rank running main, where it stands
    lookup              \* <<[name, ret]>> once GetVariableInfo(name) returned:
                        \* ret is the position of the entry returned, 0 for NULL

vars == <<disk, m_datainfo, m_vecFileInfo, m_vecAxisInfo, m_vecVariableInfo,
          strError, thrown, vecFilenames, sBegin, nDone, preLast, fileLast,
          opened, openedErr, json, loaded, proc, lookup>>

----------------------------------------------------------------------------
(* Bounds *)

MaxFiles == 3       \* files ever given a file id in one catalog
MaxList == 2        \* length of the file list of one IndexVariableData call
MaxVal == 2         \* coordinate values range over 0..MaxVal
MaxRank == 1        \* the processes started by mpirun have ranks 0..MaxRank

----------------------------------------------------------------------------
(* Generic helpers *)

EmptyMap == [x \in {} |-> ""]

\* std::map::insert: an existing key keeps its value
MapInsert(m, k, v) ==
    IF k \in DOMAIN m THEN m
    ELSE [x \in (DOMAIN m) \cup {k} |-> IF x = k THEN v ELSE m[x]]

\* std::map::erase(key)
MapErase(m, k) == [x \in (DOMAIN m) \ {k} |-> m[x]]

Digits == <<"0", "1", "2", "3", "4", "5", "6", "7", "8", "9">>

\* std::to_string((long long) n), n >= 0
RECURSIVE to_string(_)
to_string(n) ==
    IF n < 10 THEN Digits[n + 1]
    ELSE to_string(n \div 10) \o Digits[(n % 10) + 1]

\* STLStringHelper::ToLower on the attribute names that occur
ToLower(s) ==
    CASE s = "Conventions" -> "conventions"
      [] s = "History" -> "history"
      [] s = "Version" -> "version"
      [] OTHER -> s

Abs(x) == IF x < 0 THEN -x ELSE x

\* tolerance of fpa::almost_equal, in units of the value grid
Eps == 1

\* fpa::almost_equal<T>(x, y)
almost_equal(x, y) == Abs(x - y) <= Eps

\* LookupVectorHeap::find(key): index of the entry with that key, 0 if none
Find(vec, key) ==
    IF \E i \in 1..Len(vec) : vec[i].key = key
    THEN CHOOSE i \in 1..Len(vec) : vec[i].key = key
    ELSE 0

\* ncFile.get_var(name): index of the first variable of that name, 0 if NULL
get_var(f, name) ==
    IF \E i \in 1..Len(f.vars) : f.vars[i].name = name
    THEN CHOOSE i \in 1..Len(f.vars) :
            /\ f.vars[i].name = name
            /\ \A j \in 1..(i - 1) : f.vars[j].name # name
    ELSE 0

----------------------------------------------------------------------------
(* DataObjectInfo *)

\* DataObjectInfo(strName)
DataObjectInfo(strName) ==
    [name |-> strName, nctype |-> "NoType", units |-> "",
     keyatts |-> EmptyMap, otheratts |-> EmptyMap]

GlobalKeyNames == {"conventions", "version", "history"}

\* DataObjectInfo::FromNcFile, attributes a..num_atts
RECURSIVE FromNcFileFrom(_, _, _)
FromNcFileFrom(doi, atts, a) ==
    IF a > Len(atts) THEN doi
    ELSE IF atts[a][1] = "units" THEN FromNcFileFrom(doi, atts, a + 1)
    ELSE IF ToLower(atts[a][1]) \in GlobalKeyNames
    THEN FromNcFileFrom([doi EXCEPT !.keyatts = MapInsert(@, atts[a][1], atts[a][2])],
                        atts, a + 1)
    ELSE FromNcFileFrom([doi EXCEPT !.otheratts = MapInsert(@, atts[a][1], atts[a][2])],
                        atts, a + 1)

FromNcFile(doi, ncfile) == FromNcFileFrom(doi, ncfile.atts, 1)

VarKeyNames == {"missing_value", "comments", "long_name", "grid_name", "grid_type"}

\* the attribute loop as it would be if check mode adopted an attribute the
\* entry does not hold instead of rejecting the sighting
RECURSIVE FromNcVarAtts_Adopting(_, _, _, _)
FromNcVarAtts_Adopting(doi, var, fCheckConsistency, a) ==
    IF a > Len(var.atts) THEN [doi |-> doi, err |-> "", thrown |-> FALSE]
    ELSE IF var.atts[a][1] = "units"
    THEN FromNcVarAtts_Adopting(doi, var, fCheckConsistency, a + 1)
    ELSE IF ~fCheckConsistency
    THEN FromNcVarAtts_Adopting(
            IF var.atts[a][1] \in VarKeyNames
            THEN [doi EXCEPT !.keyatts = MapInsert(@, var.atts[a][1], var.atts[a][2])]
            ELSE [doi EXCEPT !.otheratts = MapInsert(@, var.atts[a][1], var.atts[a][2])],
            var, fCheckConsistency, a + 1)
    ELSE IF /\ var.atts[a][1] \in DOMAIN doi.keyatts
            /\ doi.keyatts[var.atts[a][1]] # var.atts[a][2]
    THEN [doi |-> doi, thrown |-> FALSE,
          err |-> "ERROR: Variable has inconsistent value of attribute across files"]
    ELSE IF /\ var.atts[a][1] \in DOMAIN doi.otheratts
            /\ doi.otheratts[var.atts[a][1]] # var.atts[a][2]
    THEN [doi |-> doi, thrown |-> FALSE,
          err |-> "ERROR: Variable has inconsistent value of attribute across files"]
    ELSE IF /\ var.atts[a][1] \notin DOMAIN doi.keyatts
            /\ var.atts[a][1] \notin DOMAIN doi.otheratts
    THEN FromNcVarAtts_Adopting(
            [doi EXCEPT !.otheratts = MapInsert(@, var.atts[a][1], var.atts[a][2])],
            var, fCheckConsistency, a + 1)
    ELSE FromNcVarAtts_Adopting(doi, var, fCheckConsistency, a + 1)

\* attribute loop of DataObjectInfo::FromNcVar; result [doi, err, thrown]
RECURSIVE FromNcVarAtts(_, _, _, _)
FromNcVarAtts(doi, var, fCheckConsistency, a) ==
    IF a > Len(var.atts) THEN [doi |-> doi, err |-> "", thrown |-> FALSE]
    ELSE IF var.atts[a][1] = "units"
    THEN FromNcVarAtts(doi, var, fCheckConsistency, a + 1)
    ELSE IF ~fCheckConsistency
    THEN FromNcVarAtts(
            IF var.atts[a][1] \in VarKeyNames
            THEN [doi EXCEPT !.keyatts = MapInsert(@, var.atts[a][1], var.atts[a][2])]
            ELSE [doi EXCEPT !.otheratts = MapInsert(@, var.atts[a][1], var.atts[a][2])],
            var, fCheckConsistency, a + 1)
    ELSE IF /\ var.atts[a][1] \in DOMAIN doi.keyatts
            /\ doi.keyatts[var.atts[a][1]] # var.atts[a][2]
    THEN [doi |-> doi, thrown |-> FALSE,
          err |-> "ERROR: Variable has inconsistent value of attribute across files"]
    ELSE IF /\ var.atts[a][1] \in DOMAIN doi.otheratts
            /\ doi.otheratts[var.atts[a][1]] # var.atts[a][2]
    THEN [doi |-> doi, thrown |-> FALSE,
          err |-> "ERROR: Variable has inconsistent value of attribute across files"]
    ELSE IF /\ var.atts[a][1] \notin DOMAIN doi.keyatts
            /\ var.atts[a][1] \notin DOMAIN doi.otheratts
    THEN [doi |-> doi, thrown |-> FALSE,
          err |-> "ERROR: Variable has inconsistent appearance of attribute across files"]
    ELSE FromNcVarAtts(doi, var, fCheckConsistency, a + 1)

\* FromNcVar as it would be without the comparison of the types
FromNcVar_NoTypeCheck(doi, var, fCheckConsistency) ==
    IF ~fCheckConsistency
    THEN FromNcVarAtts([doi EXCEPT !.name = var.name, !.nctype = var.type,
                                   !.units = var.units],
                       var, FALSE, 1)
    ELSE IF var.name # doi.name
    THEN [doi |-> doi, thrown |-> TRUE,
          err |-> "EXCEPTION: Calling DataObjectInfo::FromNcVar with mismatched variable names"]
    ELSE IF var.units # doi.units
    THEN [doi |-> doi, thrown |-> FALSE,
          err |-> "ERROR: Variable has inconsistent units across files"]
    ELSE FromNcVarAtts(doi, var, TRUE, 1)

\* DataObjectInfo::FromNcVar(var, fCheckConsistency); result [doi, err, thrown]
FromNcVar(doi, var, fCheckConsistency) ==
    IF ~fCheckConsistency
    THEN FromNcVarAtts([doi EXCEPT !.name = var.name, !.nctype = var.type,
                                   !.units = var.units],
                       var, FALSE, 1)
    ELSE IF var.name # doi.name
    THEN [doi |-> doi, thrown |-> TRUE,
          err |-> "EXCEPTION: Calling DataObjectInfo::FromNcVar with mismatched variable names"]
    ELSE IF var.type # doi.nctype
    THEN [doi |-> doi, thrown |-> FALSE,
          err |-> "ERROR: Variable has inconsistent type across files"]
    ELSE IF var.units # doi.units
    THEN [doi |-> doi, thrown |-> FALSE,
          err |-> "ERROR: Variable has inconsistent units across files"]
    ELSE FromNcVarAtts(doi, var, TRUE, 1)

\* DataObjectInfo::RemoveRedundantOtherAttributes(doiMaster)
RemoveRedundantOtherAttributes(doi, doiMaster) ==
    [doi EXCEPT !.otheratts = [x \in (DOMAIN doi.otheratts) \ (DOMAIN doiMaster.otheratts) |-> doi.otheratts[x]]]

----------------------------------------------------------------------------
(* SubAxis *)

\* SubAxis(): an empty candidate
SubAxis ==
    [name |-> "", nctype |-> "NoType", units |-> "",
     keyatts |-> EmptyMap, otheratts |-> EmptyMap,
     size |-> 0, ints |-> <<>>, floats |-> <<>>, doubles |-> <<>>]

\* SubAxis::operator== reaches _EXCEPTIONT("Unhandled type")
SubAxisEqThrows(this, dimrange) ==
    /\ dimrange.nctype = this.nctype
    /\ this.nctype \notin {"NoType", "Double", "Float"}

\* SubAxis::operator== as it would be with bitwise comparison of the values
SubAxisEq_Bitwise(this, dimrange) ==
    /\ dimrange.nctype = this.nctype
    /\ this.nctype = "Double" => dimrange.doubles = this.doubles
    /\ this.nctype = "Float" => dimrange.floats = this.floats

\* SubAxis::operator==(dimrange), outside the throwing case
SubAxisEq(this, dimrange) ==
    IF dimrange.nctype # this.nctype THEN FALSE
    ELSE IF this.nctype = "NoType" THEN TRUE
    ELSE IF this.nctype = "Double"
    THEN /\ Len(dimrange.doubles) = Len(this.doubles)
         /\ \A s \in 1..Len(this.doubles) :
                almost_equal(dimrange.doubles[s], this.doubles[s])
    ELSE IF this.nctype = "Float"
    THEN /\ Len(dimrange.floats) = Len(this.floats)
         /\ \A s \in 1..Len(this.doubles) :
                almost_equal(dimrange.floats[s], this.floats[s])
    ELSE FALSE

\* the scan as it would be if it always reached end()
ScanSubAxis_NeverMatch(vecSubAxis, psubaxis) == 0

\* the scan as it would be if it kept the last equal subaxis
ScanSubAxis_LastMatch(vecSubAxis, psubaxis) ==
    IF \E i \in 1..Len(vecSubAxis) : SubAxisEq(vecSubAxis[i].val, psubaxis)
    THEN CHOOSE i \in 1..Len(vecSubAxis) :
            /\ SubAxisEq(vecSubAxis[i].val, psubaxis)
            /\ \A j \in (i + 1)..Len(vecSubAxis) :
                   ~SubAxisEq(vecSubAxis[j].val, psubaxis)
    ELSE 0

\* the scan "for (; iterSubAxis != end; iterSubAxis++) if (**iter == *psubaxis) break;"
\* index of the first equal subaxis, 0 if the scan reaches end()
ScanSubAxis(vecSubAxis, psubaxis) ==
    IF \E i \in 1..Len(vecSubAxis) : SubAxisEq(vecSubAxis[i].val, psubaxis)
    THEN CHOOSE i \in 1..Len(vecSubAxis) :
            /\ SubAxisEq(vecSubAxis[i].val, psubaxis)
            /\ \A j \in 1..(i - 1) : ~SubAxisEq(vecSubAxis[j].val, psubaxis)
    ELSE 0

\* the scan throws: an entry of unhandled type is compared before any match
ScanThrows(vecSubAxis, psubaxis) ==
    \E i \in 1..Len(vecSubAxis) :
        /\ SubAxisEqThrows(vecSubAxis[i].val, psubaxis)
        /\ \A j \in 1..(i - 1) : ~SubAxisEq(vecSubAxis[j].val, psubaxis)

----------------------------------------------------------------------------
(* AxisInfo, FileInfo, VariableInfo *)

\* AxisInfo(strName)
AxisInfo(strName) ==
    [name |-> strName, nctype |-> "NoType", units |-> "",
     keyatts |-> EmptyMap, otheratts |-> EmptyMap, m_vecSubAxis |-> <<>>]

\* FileInfo(strFilename)
FileInfo(strFilename) ==
    [name |-> "", nctype |-> "NoType", units |-> "",
     keyatts |-> EmptyMap, otheratts |-> EmptyMap,
     m_strFilename |-> strFilename, m_mapAxisSubAxis |-> EmptyMap]

\* VariableInfo(strName)
VariableInfo(strName) ==
    [name |-> strName, nctype |-> "NoType", units |-> "",
     keyatts |-> EmptyMap, otheratts |-> EmptyMap,
     m_mapSubAxisToFileIdMaps |-> EmptyMap]

\* the DataObjectInfo part of an entry, and an entry with that part replaced
DoiOf(e) ==
    [name |-> e.name, nctype |-> e.nctype, units |-> e.units,
     keyatts |-> e.keyatts, otheratts |-> e.otheratts]

WithDoi(e, doi) ==
    [e EXCEPT !.name = doi.name, !.nctype = doi.nctype, !.units = doi.units,
              !.keyatts = doi.keyatts, !.otheratts = doi.otheratts]

\* strBaseDir + vecFilenames[f]
FullFilename(strBaseDir, strName) == strBaseDir \o strName

----------------------------------------------------------------------------
(* IndexedDataset::IndexVariableData *)

\* The catalog while a call runs:
\*   [datainfo, files, axes, variables, err, thrown]
\* files, axes, variables are LookupVectorHeaps: sequences of [key, val] in
\* insertion order.  Each operator below takes the values computed so far as
\* parameters and hands its results on to the operator of the next statement.

\* "return <message>;" out of IndexVariableData
Return(st, msg) == [st EXCEPT !.err = msg]

\* _EXCEPTION: leaves IndexVariableData and ends the program
Throw(st, msg) == [st EXCEPT !.err = msg, !.thrown = TRUE]

\* FileId as it would be if ids were counted from one
FileId_FromOne(sFileIndex) == to_string(sFileIndex + 1)

\* "std::string strFileId = std::to_string((long long)sFileIndex);"
FileId(sFileIndex) == to_string(sFileIndex)

\* MissingDimVar as it would be without the check
MissingDimVar_Never(iv, axisinfo) == FALSE

\* "if ((varDim == NULL) && (axisinfo.m_nctype != ncNoType))"; iv = 0 is NULL
MissingDimVar(iv, axisinfo) == iv = 0 /\ axisinfo.nctype # "NoType"

\* AxisTypeMismatch as it would be without the check
AxisTypeMismatch_Never(fNewAxis, axisinfo, varDim) == FALSE

\* the type comparison as it would be if an axis without a recorded type
\* accepted the first coordinate variable offered later
AxisTypeMismatch_TypedOnly(fNewAxis, axisinfo, varDim) ==
    ~fNewAxis /\ axisinfo.nctype # "NoType" /\ axisinfo.nctype # varDim.type

\* "else if (axisinfo.m_nctype != varDim->type())" of "Set or verify the axis type"
AxisTypeMismatch(fNewAxis, axisinfo, varDim) ==
    ~fNewAxis /\ axisinfo.nctype # varDim.type

\* InsertSubAxisIds as it would be with operator[] in place of insert
InsertSubAxisIds_Overwrite(mapSubAxisToFileId, vecSubAxisIds, strFileId) ==
    [k \in DOMAIN mapSubAxisToFileId \cup {vecSubAxisIds} |->
        IF k = vecSubAxisIds THEN strFileId ELSE mapSubAxisToFileId[k]]

\* "Insert this subaxis into the map": mapSubAxisToFileId.insert(ids, strFileId)
InsertSubAxisIds(mapSubAxisToFileId, vecSubAxisIds, strFileId) ==
    MapInsert(mapSubAxisToFileId, vecSubAxisIds, strFileId)

\* StoreSubAxis as it would be if a match were refreshed with the candidate
StoreSubAxis_Overwrite(st, ai, fi, strAxisName, strSubAxisId, psubaxis, iterSubAxis) ==
    IF iterSubAxis # 0
    THEN [st EXCEPT !.axes[ai].val.m_vecSubAxis[iterSubAxis].val = psubaxis,
                    !.files[fi].val.m_mapAxisSubAxis =
                        MapInsert(@, strAxisName,
                                  st.axes[ai].val.m_vecSubAxis[iterSubAxis].key)]
    ELSE [st EXCEPT !.axes[ai].val.m_vecSubAxis =
                        Append(@, [key |-> strSubAxisId, val |-> psubaxis]),
                    !.files[fi].val.m_mapAxisSubAxis =
                        MapInsert(@, strAxisName, strSubAxisId)]

\* StoreSubAxis as it would be if every file got a variant of its own
StoreSubAxis_AlwaysNew(st, ai, fi, strAxisName, strSubAxisId, psubaxis, iterSubAxis) ==
    [st EXCEPT !.axes[ai].val.m_vecSubAxis =
                   Append(@, [key |-> strSubAxisId, val |-> psubaxis]),
               !.files[fi].val.m_mapAxisSubAxis =
                   MapInsert(@, strAxisName, strSubAxisId)]

\* StoreSubAxis as it would be if the pair were written to every FileInfo
StoreSubAxis_AllFiles(st, ai, fi, strAxisName, strSubAxisId, psubaxis, iterSubAxis) ==
    IF iterSubAxis # 0
    THEN [st EXCEPT !.files =
            [k \in 1..Len(st.files) |->
                [st.files[k] EXCEPT !.val.m_mapAxisSubAxis =
                    [x \in DOMAIN @ \cup {strAxisName} |->
                        IF x = strAxisName
                        THEN st.axes[ai].val.m_vecSubAxis[iterSubAxis].key
                        ELSE @[x]]]]]
    ELSE [st EXCEPT !.axes[ai].val.m_vecSubAxis =
                        Append(@, [key |-> strSubAxisId, val |-> psubaxis]),
                    !.files =
            [k \in 1..Len(st.files) |->
                [st.files[k] EXCEPT !.val.m_mapAxisSubAxis =
                    [x \in DOMAIN @ \cup {strAxisName} |->
                        IF x = strAxisName THEN strSubAxisId ELSE @[x]]]]]

\* "if (iterSubAxis != end()) { strSubAxisId = iterSubAxis.key(); delete psubaxis; }
\*  else { m_vecSubAxis.insert(strSubAxisId, psubaxis); }" and
\* "Add axis/subaxis pair to FileInfo"; iterSubAxis = 0 is end()
StoreSubAxis(st, ai, fi, strAxisName, strSubAxisId, psubaxis, iterSubAxis) ==
    IF iterSubAxis # 0
    THEN [st EXCEPT !.files[fi].val.m_mapAxisSubAxis =
                        MapInsert(@, strAxisName,
                                  st.axes[ai].val.m_vecSubAxis[iterSubAxis].key)]
    ELSE [st EXCEPT !.axes[ai].val.m_vecSubAxis =
                        Append(@, [key |-> strSubAxisId, val |-> psubaxis]),
                    !.files[fi].val.m_mapAxisSubAxis =
                        MapInsert(@, strAxisName, strSubAxisId)]

\* "Check if SubAxis already exists" and what follows it
RetainSubAxis(st, ai, fi, strAxisName, strSubAxisId, psubaxis) ==
    IF ScanThrows(st.axes[ai].val.m_vecSubAxis, psubaxis)
    THEN Throw(st, "EXCEPTION: Unhandled type")
    ELSE StoreSubAxis(st, ai, fi, strAxisName, strSubAxisId, psubaxis,
                      ScanSubAxis(st.axes[ai].val.m_vecSubAxis, psubaxis))

\* "Get the values from the dimension"; psubaxis carries type and attributes
LoadValues(st, ai, fi, dim, strSubAxisId, varDim, psubaxis) ==
    IF st.axes[ai].val.nctype = "Double"
    THEN RetainSubAxis(st, ai, fi, dim.name, strSubAxisId,
            [psubaxis EXCEPT !.doubles = SubSeq(varDim.values, 1, dim.size)])
    ELSE IF st.axes[ai].val.nctype = "Float"
    THEN RetainSubAxis(st, ai, fi, dim.name, strSubAxisId,
            [psubaxis EXCEPT !.floats = SubSeq(varDim.values, 1, dim.size)])
    ELSE Throw(st, "EXCEPTION: Unsupported dimension nctype")

\* "strError = psubaxis->FromNcVar(varDim, false); if (strError != "") ..."
\* rs is what that call returned
InitSubAxis(st, ai, fi, dim, strSubAxisId, varDim, psubaxis, rs) ==
    IF rs.err # "" THEN Return(st, rs.err)
    ELSE LoadValues(st, ai, fi, dim, strSubAxisId, varDim, WithDoi(psubaxis, rs.doi))

\* "psubaxis->m_nctype = axisinfo.m_nctype; axisinfo.FromNcVar(varDim, !fNewAxis);"
\* ra is what the latter call produced; the string it returned is dropped
CheckAxisInfo(st, ai, fi, dim, strSubAxisId, varDim, psubaxis, ra) ==
    IF ra.thrown THEN Throw(st, ra.err)
    ELSE InitSubAxis([st EXCEPT !.axes[ai].val = WithDoi(@, ra.doi)],
                     ai, fi, dim, strSubAxisId, varDim, psubaxis,
                     FromNcVar(DoiOf(psubaxis), varDim, FALSE))

\* "Set or verify the axis type", the type being settled
SetAxisType(st, ai, fi, dim, strSubAxisId, varDim, fNewAxis, nctype) ==
    CheckAxisInfo([st EXCEPT !.axes[ai].val.nctype = nctype],
                  ai, fi, dim, strSubAxisId, varDim,
                  [SubAxis EXCEPT !.size = dim.size, !.nctype = nctype],
                  FromNcVar(DoiOf([st.axes[ai].val EXCEPT !.nctype = nctype]),
                            varDim, ~fNewAxis))

\* "Check for variable": iv is the coordinate variable of the dimension (0: none)
CheckDimVar(st, ncFile, ai, fi, dim, strSubAxisId, fNewAxis, iv) ==
    IF MissingDimVar(iv, st.axes[ai].val)
    THEN Return(st, "ERROR: Dimension variable missing from file, but present in other files.")
    ELSE IF iv = 0
    THEN RetainSubAxis(st, ai, fi, dim.name, strSubAxisId,
                       [SubAxis EXCEPT !.size = dim.size])
    ELSE IF Len(ncFile.vars[iv].dims) # 1
    THEN Return(st, "ERROR: Dimension variable must have exactly 1 dimension")
    ELSE IF ncFile.vars[iv].dims[1] # dim.name
    THEN Return(st, "ERROR: Dimension variable does not have dimension")
    ELSE IF AxisTypeMismatch(fNewAxis, st.axes[ai].val, ncFile.vars[iv])
    THEN Return(st, "ERROR: Dimension variable type mismatch.  Possible duplicate dimension name in dataset.")
    ELSE SetAxisType(st, ai, fi, dim, strSubAxisId, ncFile.vars[iv], fNewAxis,
                     IF fNewAxis THEN ncFile.vars[iv].type
                     ELSE st.axes[ai].val.nctype)

\* "Create a new SubAxis" for the axis at position ai
NewSubAxis(st, ncFile, ai, fi, dim, fNewAxis) ==
    CheckDimVar(st, ncFile, ai, fi, dim,
                to_string(Len(st.axes[ai].val.m_vecSubAxis)),
                fNewAxis, get_var(ncFile, dim.name))

\* one iteration of the loop "Index all Dimensions" for dimension dim of
\* ncFile; fi is the position of this file's FileInfo, iteraxis what
\* m_vecAxisInfo.find(strAxisName) gave (0: end())
IndexDimension(st, ncFile, fi, dim, iteraxis) ==
    IF iteraxis = 0
    THEN NewSubAxis([st EXCEPT !.axes = Append(@, [key |-> dim.name,
                                                  val |-> AxisInfo(dim.name)])],
                    ncFile, Len(st.axes) + 1, fi, dim, TRUE)
    ELSE NewSubAxis(st, ncFile, iteraxis, fi, dim, FALSE)

\* the loop "Index all Dimensions", from dimension d on
RECURSIVE IndexDimensions(_, _, _, _)
NextDimension(st1, ncFile, fi, d) ==
    IF st1.err # "" THEN st1
    ELSE IndexDimensions(st1, ncFile, fi, d + 1)

IndexDimensions(st, ncFile, fi, d) ==
    IF d > Len(ncFile.dims) THEN st
    ELSE NextDimension(
            IndexDimension(st, ncFile, fi, ncFile.dims[d],
                           Find(st.axes, ncFile.dims[d].name)),
            ncFile, fi, d)

\* "Get subaxis to file id map" and "Insert this subaxis into the map"
InsertLocation(st, vi, vecAxisNames, vecSubAxisIds, strFileId) ==
    [st EXCEPT !.variables[vi].val.m_mapSubAxisToFileIdMaps =
        [MapInsert(@, vecAxisNames, EmptyMap) EXCEPT ![vecAxisNames] =
            InsertSubAxisIds(@, vecSubAxisIds, strFileId)]]

\* "Build the SubAxisCoordinate" as it would be if the tuple named the
\* first variant of every axis
BuildSubAxisCoordinate_FirstVariant(st, var, fi, vi, strFileId) ==
    IF \E d \in 1..Len(var.dims) :
            var.dims[d] \notin DOMAIN st.files[fi].val.m_mapAxisSubAxis
    THEN Throw(st, "EXCEPTION: Logic error")
    ELSE InsertLocation(st, vi, var.dims, [d \in 1..Len(var.dims) |-> "0"],
                        strFileId)

\* "Build the SubAxisCoordinate"
BuildSubAxisCoordinate(st, var, fi, vi, strFileId) ==
    IF \E d \in 1..Len(var.dims) :
            var.dims[d] \notin DOMAIN st.files[fi].val.m_mapAxisSubAxis
    THEN Throw(st, "EXCEPTION: Logic error")
    ELSE InsertLocation(st, vi, var.dims,
            [d \in 1..Len(var.dims) |->
                st.files[fi].val.m_mapAxisSubAxis[var.dims[d]]],
            strFileId)

\* "strError = varinfo.FromNcVar(var, !fNewVariable); if (strError != "") return"
\* r is what the call produced
InitVariableInfo(st, var, fi, vi, strFileId, r) ==
    IF r.thrown THEN Throw(st, r.err)
    ELSE IF r.err # "" THEN Return(st, r.err)
    ELSE BuildSubAxisCoordinate([st EXCEPT !.variables[vi].val = WithDoi(@, r.doi)],
                                var, fi, vi, strFileId)

\* "Find the corresponding VariableInfo structure" as it would be if the
\* entry of a new variable were checked against the file instead of filled
FindVariableInfo_AlwaysCheck(st, var, fi, strFileId, itervar) ==
    IF itervar = 0
    THEN InitVariableInfo(
            [st EXCEPT !.variables = Append(@, [key |-> var.name,
                                               val |-> VariableInfo(var.name)])],
            var, fi, Len(st.variables) + 1, strFileId,
            FromNcVar(DoiOf(VariableInfo(var.name)), var, TRUE))
    ELSE InitVariableInfo(st, var, fi, itervar, strFileId,
            FromNcVar(DoiOf(st.variables[itervar].val), var, TRUE))

\* "Find the corresponding VariableInfo structure"; itervar is what
\* m_vecVariableInfo.find(strVariableName) gave (0: end())
FindVariableInfo(st, var, fi, strFileId, itervar) ==
    IF itervar = 0
    THEN InitVariableInfo(
            [st EXCEPT !.variables = Append(@, [key |-> var.name,
                                               val |-> VariableInfo(var.name)])],
            var, fi, Len(st.variables) + 1, strFileId,
            FromNcVar(DoiOf(VariableInfo(var.name)), var, FALSE))
    ELSE InitVariableInfo(st, var, fi, itervar, strFileId,
            FromNcVar(DoiOf(st.variables[itervar].val), var, TRUE))

\* one iteration of the loop "Loop over all Variables" for variable var
IndexVariable(st, var, fi, strFileId) ==
    IF \E d \in 1..Len(st.axes) : st.axes[d].val.name = var.name
    THEN st
    ELSE FindVariableInfo(st, var, fi, strFileId, Find(st.variables, var.name))

\* the loop "Loop over all Variables", from variable v on
RECURSIVE IndexVariables(_, _, _, _, _)
NextVariable(st1, ncFile, fi, strFileId, v) ==
    IF st1.err # "" THEN st1
    ELSE IndexVariables(st1, ncFile, fi, strFileId, v + 1)

IndexVariables(st, ncFile, fi, strFileId, v) ==
    IF v > Len(ncFile.vars) THEN st
    ELSE NextVariable(IndexVariable(st, ncFile.vars[v], fi, strFileId),
                      ncFile, fi, strFileId, v)

\* the two loops as they would be if the variables were indexed although
\* the loop over the dimensions had returned an error string
IndexContents_DespiteError(st2, ncFile, fi, strFileId) ==
    IF st2.thrown THEN st2
    ELSE IndexVariables([st2 EXCEPT !.err = ""], ncFile, fi, strFileId, 1)

\* the two loops of the body, st2 being the catalog after the first
IndexContents(st2, ncFile, fi, strFileId) ==
    IF st2.err # "" THEN st2
    ELSE IndexVariables(st2, ncFile, fi, strFileId, 1)

\* "fileinfo.FromNcFile(&ncFile); fileinfo.RemoveRedundantOtherAttributes(m_datainfo);"
\* fileinfo is the FileInfo after the first of the two
InsertFileInfo(st, ncFile, strFileId, fileinfo) ==
    IndexContents(
        IndexDimensions(
            [st EXCEPT !.files = Append(@,
                [key |-> strFileId,
                 val |-> WithDoi(fileinfo,
                            RemoveRedundantOtherAttributes(DoiOf(fileinfo),
                                                           st.datainfo))])],
            ncFile, Len(st.files) + 1, 1),
        ncFile, Len(st.files) + 1, strFileId)

\* "Insert a new file", st holding the global attributes already
NewFileInfo(st, strBaseDir, ncFile) ==
    InsertFileInfo(st, ncFile, FileId(Len(st.files)),
        WithDoi(FileInfo(FullFilename(strBaseDir, ncFile.name)),
                FromNcFile(DoiOf(FileInfo(FullFilename(strBaseDir, ncFile.name))),
                           ncFile)))

\* IndexFile as it would be if every file's global attributes were loaded
IndexFile_LoadAlways(st, strBaseDir, ncFile) ==
    IF ~ncFile.valid
    THEN Return(st, "Unable to open data file for reading")
    ELSE NewFileInfo([st EXCEPT !.datainfo = FromNcFile(@, ncFile)],
                     strBaseDir, ncFile)

\* IndexFile as it would be if an unreadable file were passed over
IndexFile_SkipUnreadable(st, strBaseDir, ncFile) ==
    IF ~ncFile.valid
    THEN st
    ELSE IF Len(st.files) = 0
    THEN NewFileInfo([st EXCEPT !.datainfo = FromNcFile(@, ncFile)],
                     strBaseDir, ncFile)
    ELSE NewFileInfo(st, strBaseDir, ncFile)

\* the body of the loop over vecFilenames for one file
IndexFile(st, strBaseDir, ncFile) ==
    IF ~ncFile.valid
    THEN Return(st, "Unable to open data file for reading")
    ELSE IF Len(st.files) = 0
    THEN NewFileInfo([st EXCEPT !.datainfo = FromNcFile(@, ncFile)],
                     strBaseDir, ncFile)
    ELSE NewFileInfo(st, strBaseDir, ncFile)

\* what is recorded about a call besides its effect on the catalog
CatalogOf(st) ==
    [datainfo |-> st.datainfo, files |-> st.files, axes |-> st.axes,
     variables |-> st.variables]

\* IndexVariableData(strBaseDir, vecFilenames), from file f on; the result
\* also tells the last file reached (fLast) and the catalog before it (pre)
RECURSIVE IndexVariableDataFrom(_, _, _, _, _)
\* NextFile as it would be if a failed file were rolled back
NextFile_Rollback(st, st1, strBaseDir, files, f) ==
    IF st1.err # ""
    THEN [st |-> [st EXCEPT !.err = st1.err, !.thrown = st1.thrown],
          fLast |-> f, pre |-> CatalogOf(st)]
    ELSE IndexVariableDataFrom(st1, CatalogOf(st), strBaseDir, files, f + 1)

NextFile(st, st1, strBaseDir, files, f) ==
    IF st1.err # ""
    THEN [st |-> st1, fLast |-> f, pre |-> CatalogOf(st)]
    ELSE IndexVariableDataFrom(st1, CatalogOf(st), strBaseDir, files, f + 1)

IndexVariableDataFrom(st, pre, strBaseDir, files, f) ==
    IF f > Len(files) THEN [st |-> st, fLast |-> f - 1, pre |-> pre]
    ELSE NextFile(st, IndexFile(st, strBaseDir, files[f]), strBaseDir, files, f)

----------------------------------------------------------------------------
(* nlohmann::json values *)

\* A JSON value is a record of its type t and its contents: s a string, n a
\* number, a a sequence of values, o a function from member names to values.
JNull == [t |-> "null"]

JString(s) == [t |-> "string", s |-> s]

JInteger(n) == [t |-> "integer", n |-> n]

JFloat(x) == [t |-> "float", n |-> x]

JArray(seq) == [t |-> "array", a |-> seq]

JObject(f) == [t |-> "object", o |-> f]

\* j.find(key) != j.end(): only an object has members
JFind(j, key) == j.t = "object" /\ key \in DOMAIN j.o

\* the member names of j (none unless j is an object)
JKeys(j) == IF j.t = "object" THEN DOMAIN j.o ELSE {}

\* "j[key] = val": null becomes an object; an existing member is replaced
JSet(j, key, val) ==
    JObject([x \in JKeys(j) \cup {key} |-> IF x = key THEN val ELSE j.o[x]])

\* "j[key]" read as a reference: a missing member is created as null
JRef(j, key) == IF JFind(j, key) THEN j.o[key] ELSE JNull

\* "j[k] = m[k].c_str()" for every entry of an attribute map, in turn
JSetStrings(j, m) ==
    IF DOMAIN m = {} THEN j
    ELSE JObject([x \in JKeys(j) \cup DOMAIN m |->
                    IF x \in DOMAIN m THEN JString(m[x]) ELSE j.o[x]])

\* the strings that occur as keys, in the order of std::string::operator<
StringOrder ==
    <<"", "0", "1", "2", "3", "4", "5", "6", "7", "8", "9",
      "Conventions", "History", "Q", "T", "axes", "axis", "axisgroups",
      "axisids", "cell", "dataset", "datatype", "file", "grid_type", "lev",
      "long_name", "name", "size", "source", "subaxes", "subaxismap",
      "title", "units", "values", "variables", "x", "z">>

Rank(s) == CHOOSE i \in 1..Len(StringOrder) : StringOrder[i] = s

\* std::vector<std::string>::operator< (lexicographical compare)
VecLess(a, b) ==
    \E i \in 1..(Len(a) + 1) :
        /\ i <= Len(b) + 1
        /\ \A k \in 1..(i - 1) : a[k] = b[k]
        /\ IF i > Len(a) THEN i <= Len(b)
           ELSE i <= Len(b) /\ Rank(a[i]) < Rank(b[i])

\* the keys of a std::map keyed by string vectors, in iteration order
RECURSIVE SortVecs(_)
SortVecs(S) ==
    IF S = {} THEN <<>>
    ELSE <<CHOOSE m \in S : \A y \in S \ {m} : VecLess(m, y)>>
         \o SortVecs(S \ {CHOOSE m \in S : \A y \in S \ {m} : VecLess(m, y)})

\* the keys of a std::map or JSON object keyed by strings, in iteration order
SortKeys(S) == SelectSeq(StringOrder, LAMBDA s : s \in S)

----------------------------------------------------------------------------
(* IndexedDataset::ToJSONFile *)

\* NcTypeToString(nctype), and StringToNcType(str) for the names it produces
NcTypeToString(nctype) ==
    CASE nctype = "Int" -> "int"
      [] nctype = "Float" -> "float"
      [] nctype = "Double" -> "double"
      [] OTHER -> "notype"

StringToNcType(str) ==
    CASE str = "int" -> "Int"
      [] str = "float" -> "Float"
      [] str = "double" -> "Double"
      [] OTHER -> "NoType"

\* "nlohmann::json & jv = j["values"]; for (...) jv.push_back(values[i]);"
\* the numbers being of JSON type t
ValuesToJSON(values, t) ==
    IF values = <<>> THEN JNull
    ELSE JArray([i \in 1..Len(values) |-> [t |-> t, n |-> values[i]]])

\* SubAxis::ToJSON(j); the types ingestion stores never reach "Invalid type"
SubAxisToJSON(sub, j) ==
    IF sub.nctype = "Int"
    THEN JSet(JSet(JSet(j, "datatype", JString(NcTypeToString(sub.nctype))),
                   "size", JInteger(sub.size)),
              "values", ValuesToJSON(sub.ints, "integer"))
    ELSE IF sub.nctype = "Float"
    THEN JSet(JSet(JSet(j, "datatype", JString(NcTypeToString(sub.nctype))),
                   "size", JInteger(sub.size)),
              "values", ValuesToJSON(sub.floats, "float"))
    ELSE IF sub.nctype = "Double"
    THEN JSet(JSet(JSet(j, "datatype", JString(NcTypeToString(sub.nctype))),
                   "size", JInteger(sub.size)),
              "values", ValuesToJSON(sub.doubles, "float"))
    ELSE JSet(JSet(j, "datatype", JString(NcTypeToString(sub.nctype))),
              "size", JInteger(sub.size))

\* AxisNameVector::ToJSON(j)
AxisNameVectorToJSON(vec, j) ==
    IF vec = <<>> THEN j
    ELSE JArray((IF j.t = "array" THEN j.a ELSE <<>>)
                \o [d \in 1..Len(vec) |-> JString(vec[d])])

\* SubAxisToFileIdMap::ToJSON(j): one row [ids..., file id] per entry
SubAxisToFileIdMapToJSON(map, j) ==
    IF DOMAIN map = {} THEN j
    ELSE JArray((IF j.t = "array" THEN j.a ELSE <<>>)
                \o [i \in 1..Cardinality(DOMAIN map) |->
                      JArray([d \in 1..Len(SortVecs(DOMAIN map)[i]) |->
                                JString(SortVecs(DOMAIN map)[i][d])]
                             \o <<JString(map[SortVecs(DOMAIN map)[i]])>>)])

\* "jaa["units"] = ...; jaa["datatype"] = ...;" and the two attribute loops
DataObjectInfoToJSON(doi) ==
    JSetStrings(
        JSetStrings(
            JSet(JSet(JNull, "units", JString(doi.units)),
                 "datatype", JString(NcTypeToString(doi.nctype))),
            doi.keyatts),
        doi.otheratts)

\* the "axes" array of a file entry: one pair per entry of m_mapAxisSubAxis
AxisSubAxisMapToJSON(map) ==
    IF DOMAIN map = {} THEN JNull
    ELSE JArray([i \in 1..Cardinality(DOMAIN map) |->
                    JArray(<<JString(SortKeys(DOMAIN map)[i]),
                             JString(map[SortKeys(DOMAIN map)[i]])>>)])

\* the entry of one file under "file"
FileInfoToJSON(fileinfo) ==
    JSet(JSetStrings(
            JSetStrings(JSet(JNull, "name", JString(fileinfo.m_strFilename)),
                        fileinfo.keyatts),
            fileinfo.otheratts),
         "axes", AxisSubAxisMapToJSON(fileinfo.m_mapAxisSubAxis))

\* SubAxesToJSON as it would be if every axis nested its variants
RECURSIVE SubAxesToJSON_Nested(_, _, _)
SubAxesToJSON_Nested(jaa, vecSubAxis, k) ==
    IF k > Len(vecSubAxis) THEN jaa
    ELSE SubAxesToJSON_Nested(
            JSet(jaa, "subaxes",
                 JSet(JRef(jaa, "subaxes"), vecSubAxis[k].key,
                      SubAxisToJSON(vecSubAxis[k].val,
                                    JRef(JRef(jaa, "subaxes"), vecSubAxis[k].key)))),
            vecSubAxis, k + 1)

\* "Add all subaxes", from subaxis k on, jaa being the axis object so far
RECURSIVE SubAxesToJSON(_, _, _)
SubAxesToJSON(jaa, vecSubAxis, k) ==
    IF k > Len(vecSubAxis) THEN jaa
    ELSE IF Len(vecSubAxis) = 1
    THEN SubAxesToJSON(SubAxisToJSON(vecSubAxis[k].val, jaa), vecSubAxis, k + 1)
    ELSE SubAxesToJSON(
            JSet(jaa, "subaxes",
                 JSet(JRef(jaa, "subaxes"), vecSubAxis[k].key,
                      SubAxisToJSON(vecSubAxis[k].val,
                                    JRef(JRef(jaa, "subaxes"), vecSubAxis[k].key)))),
            vecSubAxis, k + 1)

\* the entry of one axis under "axes"
AxisInfoToJSON(axisinfo) ==
    SubAxesToJSON(DataObjectInfoToJSON(DoiOf(axisinfo)), axisinfo.m_vecSubAxis, 1)

\* one turn of the loop over the axis groups into *jvvg
AxisGroupToJSON(jvvg, vecAxisNames, mapSubAxisToFileId) ==
    JSet(JSet(jvvg, "axisids",
              AxisNameVectorToJSON(vecAxisNames, JRef(jvvg, "axisids"))),
         "subaxismap",
         SubAxisToFileIdMapToJSON(mapSubAxisToFileId, JRef(jvvg, "subaxismap")))

\* "Output subaxis lookup table": the loop over the axis groups from the
\* n-th on; ixAxisGroup is declared before the loop and never changed in it
RECURSIVE AxisGroupsToJSON(_, _, _, _, _)
AxisGroupsToJSON(jvv, maps, groups, n, ixAxisGroup) ==
    IF n > Len(groups) THEN jvv
    ELSE IF Len(groups) > 1
    THEN AxisGroupsToJSON(
            JSet(jvv, "axisgroups",
                 JSet(JRef(jvv, "axisgroups"), to_string(ixAxisGroup),
                      AxisGroupToJSON(
                          JRef(JRef(jvv, "axisgroups"), to_string(ixAxisGroup)),
                          groups[n], maps[groups[n]]))),
            maps, groups, n + 1, ixAxisGroup)
    ELSE AxisGroupsToJSON(AxisGroupToJSON(jvv, groups[n], maps[groups[n]]),
                          maps, groups, n + 1, ixAxisGroup)

\* the entry of one variable under "variables"
VariableInfoToJSON(varinfo) ==
    AxisGroupsToJSON(DataObjectInfoToJSON(DoiOf(varinfo)),
                     varinfo.m_mapSubAxisToFileIdMaps,
                     SortVecs(DOMAIN varinfo.m_mapSubAxisToFileIdMaps), 1, 0)

\* the last entry of a vector filed under the name x, by key or by m_strName
LastKeyed(vec, x) ==
    vec[CHOOSE i \in 1..Len(vec) :
            /\ vec[i].key = x
            /\ \A k \in (i + 1)..Len(vec) : vec[k].key # x].val

LastNamed(vec, x) ==
    vec[CHOOSE i \in 1..Len(vec) :
            /\ vec[i].val.name = x
            /\ \A k \in (i + 1)..Len(vec) : vec[k].val.name # x].val

\* "jf[iterfile.key()]", "ja[paxisinfo->m_strName]", "jv[pvarinfo->m_strName]"
\* filled for every entry of the vector
FilesToJSON(vec) ==
    IF vec = <<>> THEN JNull
    ELSE JObject([x \in { vec[i].key : i \in 1..Len(vec) } |->
                    FileInfoToJSON(LastKeyed(vec, x))])

AxesToJSON(vec) ==
    IF vec = <<>> THEN JNull
    ELSE JObject([x \in { vec[i].val.name : i \in 1..Len(vec) } |->
                    AxisInfoToJSON(LastNamed(vec, x))])

VariablesToJSON(vec) ==
    IF vec = <<>> THEN JNull
    ELSE JObject([x \in { vec[i].val.name : i \in 1..Len(vec) } |->
                    VariableInfoToJSON(LastNamed(vec, x))])

\* the document IndexedDataset::ToJSONFile writes for the catalog c
ToJSON(c) ==
    JObject([x \in {"dataset", "file", "axes", "variables"} |->
        CASE x = "dataset" ->
                JSetStrings(JSetStrings(JNull, c.datainfo.keyatts),
                            c.datainfo.otheratts)
          [] x = "file" -> FilesToJSON(c.files)
          [] x = "axes" -> AxesToJSON(c.axes)
          [] x = "variables" -> VariablesToJSON(c.variables)])

----------------------------------------------------------------------------
(* IndexedDataset::FromJSONFile *)

\* the names DataObjectInfo::InsertAttribute files under the key attributes
m_setKeyAttributeNames == {}

\* std::to_string((long long) n) and std::to_string((double) x) of a JSON
\* number, the value of a JSON string
AttributeString(j) ==
    IF j.t = "string" THEN j.s
    ELSE IF j.t = "integer" THEN to_string(j.n)
    ELSE to_string(j.n) \o ".000000"

\* DataObjectInfo::InsertAttribute(strKey, strValue) reaches its _EXCEPTION1
InsertAttributeThrows(doi, strKey) ==
    IF strKey \in m_setKeyAttributeNames THEN strKey \in DOMAIN doi.keyatts
    ELSE strKey \in DOMAIN doi.otheratts

\* InsertAttribute as it would be if it filed every attribute under both maps
InsertAttribute_BothMaps(doi, strKey, strValue) ==
    [doi EXCEPT !.keyatts = MapInsert(@, strKey, strValue),
                !.otheratts = MapInsert(@, strKey, strValue)]

\* DataObjectInfo::InsertAttribute(strKey, strValue), outside that case
InsertAttribute(doi, strKey, strValue) ==
    IF strKey \in m_setKeyAttributeNames
    THEN [doi EXCEPT !.keyatts = MapInsert(@, strKey, strValue)]
    ELSE [doi EXCEPT !.otheratts = MapInsert(@, strKey, strValue)]

\* the loops "Load attributes" / "Load all attributes" over the members of
\* j from the n-th on: members named in skip are passed over, values whose
\* type is not in types end the load; result [doi, err, thrown]
RECURSIVE LoadAttributes(_, _, _, _, _, _)
LoadAttributes(doi, j, keys, n, skip, types) ==
    IF n > Len(keys) THEN [doi |-> doi, err |-> "", thrown |-> FALSE]
    ELSE IF keys[n] \in skip
    THEN LoadAttributes(doi, j, keys, n + 1, skip, types)
    ELSE IF j.o[keys[n]].t \notin types
    THEN [doi |-> doi, err |-> "EXCEPTION: Invalid JSON attribute value",
          thrown |-> TRUE]
    ELSE IF InsertAttributeThrows(doi, keys[n])
    THEN [doi |-> doi, err |-> "EXCEPTION: Attribute key already exists",
          thrown |-> TRUE]
    ELSE LoadAttributes(InsertAttribute(doi, keys[n], AttributeString(j.o[keys[n]])),
                        j, keys, n + 1, skip, types)

\* every element of a JSON array is a string
AllStrings(seq) == \A i \in 1..Len(seq) : seq[i].t = "string"

\* every element of a JSON array is a number
AllNumbers(seq) == \A i \in 1..Len(seq) : seq[i].t \in {"integer", "float"}

\* the elements of a JSON array of strings or of numbers
Unwrap(seq) ==
    [i \in 1..Len(seq) |-> IF seq[i].t = "string" THEN seq[i].s ELSE seq[i].n]

\* SubAxisFromJSON as it would be if a missing size were read as 0
SubAxisFromJSON_SizeOptional(j) ==
    IF ~JFind(j, "datatype")
    THEN [sub |-> SubAxis, thrown |-> TRUE,
          err |-> "EXCEPTION: JSON subaxis missing datatype key"]
    ELSE IF j.o["datatype"].t # "string"
    THEN [sub |-> SubAxis, thrown |-> TRUE,
          err |-> "EXCEPTION: JSON subaxis datatype must be type string"]
    ELSE [sub |-> [SubAxis EXCEPT !.nctype = StringToNcType(j.o["datatype"].s)],
          thrown |-> FALSE, err |-> ""]

\* SubAxis::FromJSON(strKey, j) on a new SubAxis; result [sub, err, thrown]
SubAxisFromJSON(j) ==
    IF ~JFind(j, "datatype")
    THEN [sub |-> SubAxis, thrown |-> TRUE,
          err |-> "EXCEPTION: JSON subaxis missing datatype key"]
    ELSE IF j.o["datatype"].t # "string"
    THEN [sub |-> SubAxis, thrown |-> TRUE,
          err |-> "EXCEPTION: JSON subaxis datatype must be type string"]
    ELSE IF ~JFind(j, "size")
    THEN [sub |-> SubAxis, thrown |-> TRUE,
          err |-> "EXCEPTION: JSON subaxis missing size key"]
    ELSE IF j.o["size"].t # "integer"
    THEN [sub |-> SubAxis, thrown |-> TRUE,
          err |-> "EXCEPTION: JSON subaxis size must be type integer"]
    ELSE IF ~JFind(j, "values")
    THEN [sub |-> [SubAxis EXCEPT !.nctype = StringToNcType(j.o["datatype"].s),
                                  !.size = j.o["size"].n],
          thrown |-> FALSE, err |-> ""]
    ELSE IF j.o["values"].t # "array"
    THEN [sub |-> SubAxis, thrown |-> TRUE,
          err |-> "EXCEPTION: JSON subaxis values must be type array"]
    ELSE IF StringToNcType(j.o["datatype"].s) \notin {"Int", "Float", "Double"}
    THEN [sub |-> SubAxis, thrown |-> TRUE,
          err |-> "EXCEPTION: JSON subaxis values unsupported type"]
    ELSE IF ~AllNumbers(j.o["values"].a)
    THEN [sub |-> SubAxis, thrown |-> TRUE, err |-> "EXCEPTION: json type_error"]
    ELSE [sub |-> [SubAxis EXCEPT
                    !.nctype = StringToNcType(j.o["datatype"].s),
                    !.size = j.o["size"].n,
                    !.ints = IF StringToNcType(j.o["datatype"].s) = "Int"
                             THEN Unwrap(j.o["values"].a) ELSE <<>>,
                    !.floats = IF StringToNcType(j.o["datatype"].s) = "Float"
                               THEN Unwrap(j.o["values"].a) ELSE <<>>,
                    !.doubles = IF StringToNcType(j.o["datatype"].s) = "Double"
                                THEN Unwrap(j.o["values"].a) ELSE <<>>],
          thrown |-> FALSE, err |-> ""]

\* the rows of a "subaxismap" that the loop over it accepts: arrays of at
\* least one element, all strings
RowsWellFormed(rows) ==
    \A i \in 1..Len(rows) :
        /\ rows[i].t = "array"
        /\ Len(rows[i].a) >= 1
        /\ AllStrings(rows[i].a)

\* mapSubAxisToFileId after the rows from the i-th on were inserted
RECURSIVE RowsToMap(_, _, _)
RowsToMap(map, rows, i) ==
    IF i > Len(rows) THEN map
    ELSE RowsToMap(
            MapInsert(map,
                      [d \in 1..(Len(rows[i].a) - 1) |-> rows[i].a[d].s],
                      rows[i].a[Len(rows[i].a)].s),
            rows, i + 1)

\* VariableInfo::SubAxisToFileIdMapFromJSON(strKey, j); result
\* [maps, err, thrown], maps being m_mapSubAxisToFileIdMaps
SubAxisToFileIdMapFromJSON(maps, j) ==
    IF ~JFind(j, "axisids")
    THEN [maps |-> maps, thrown |-> TRUE,
          err |-> "EXCEPTION: JSON variable missing axisids key"]
    ELSE IF j.o["axisids"].t \notin {"null", "array"}
    THEN [maps |-> maps, thrown |-> TRUE,
          err |-> "EXCEPTION: JSON variable axisids must be type array"]
    ELSE IF j.o["axisids"].t = "array" /\ ~AllStrings(j.o["axisids"].a)
    THEN [maps |-> maps, thrown |-> TRUE, err |-> "EXCEPTION: json type_error"]
    ELSE IF ~JFind(j, "subaxismap")
    THEN [maps |-> maps, thrown |-> TRUE,
          err |-> "EXCEPTION: JSON variable missing subaxismap key"]
    ELSE IF j.o["subaxismap"].t # "array"
    THEN [maps |-> maps, thrown |-> TRUE,
          err |-> "EXCEPTION: JSON variable subaxismap must be type array of arrays of strings"]
    ELSE IF ~RowsWellFormed(j.o["subaxismap"].a)
    THEN [maps |-> maps, thrown |-> TRUE,
          err |-> "EXCEPTION: JSON variable subaxismap must be type array of arrays of strings"]
    ELSE [maps |-> MapInsert(maps,
                        IF j.o["axisids"].t = "null" THEN <<>>
                        ELSE Unwrap(j.o["axisids"].a),
                        RowsToMap(EmptyMap, j.o["subaxismap"].a, 1)),
          thrown |-> FALSE, err |-> ""]

\* what a step of the load hands on: the catalog c with the entry at
\* position i of the named vector replaced, or the exception r reports
LoadedFile(c, fi, r) ==
    IF r.thrown THEN Throw(c, r.err)
    ELSE [c EXCEPT !.files[fi].val = WithDoi(@, r.doi)]

LoadedAxis(c, ai, r) ==
    IF r.thrown THEN Throw(c, r.err)
    ELSE [c EXCEPT !.axes[ai].val = WithDoi(@, r.doi)]

LoadedVariable(c, vi, r) ==
    IF r.thrown THEN Throw(c, r.err)
    ELSE [c EXCEPT !.variables[vi].val = WithDoi(@, r.doi)]

\* "Dataset": the attributes of the collection
LoadDataset(c, j) ==
    IF ~JFind(j, "dataset")
    THEN Throw(c, "EXCEPTION: JSON file missing dataset key")
    ELSE IF LoadAttributes(c.datainfo, j.o["dataset"],
                           SortKeys(JKeys(j.o["dataset"])), 1, {}, {"string"}).thrown
    THEN Throw(c, "EXCEPTION: json type_error")
    ELSE [c EXCEPT !.datainfo =
            LoadAttributes(@, j.o["dataset"], SortKeys(JKeys(j.o["dataset"])),
                           1, {}, {"string"}).doi]

\* "Axes stored in this file": the pairs of a well-formed "axes" array
RECURSIVE PairsToMap(_, _, _)
PairsToMap(map, pairs, s) ==
    IF s > Len(pairs) THEN map
    ELSE PairsToMap(MapInsert(map, pairs[s].a[1].s, pairs[s].a[2].s), pairs, s + 1)

\* the "axes" member of a file entry, if any, is an array of pairs of strings
FileAxesWellFormed(jff) ==
    JFind(jff, "axes") =>
        /\ jff.o["axes"].t = "array"
        /\ \A s \in 1..Len(jff.o["axes"].a) :
            /\ jff.o["axes"].a[s].t = "array"
            /\ Len(jff.o["axes"].a[s].a) = 2
            /\ AllStrings(jff.o["axes"].a[s].a)

\* one file entry jff under the id strKey
LoadFile(c, strKey, jff) ==
    IF ~JFind(jff, "name")
    THEN Throw(c, "EXCEPTION: JSON file entry missing name key")
    ELSE IF jff.o["name"].t # "string"
    THEN Throw(c, "EXCEPTION: json type_error")
    ELSE IF ~FileAxesWellFormed(jff)
    THEN Throw(c, "EXCEPTION: axes must be an array of arrays of size 2")
    ELSE LoadedFile(
            [c EXCEPT !.files = Append(@,
                [key |-> strKey,
                 val |-> [FileInfo(jff.o["name"].s) EXCEPT !.m_mapAxisSubAxis =
                            IF JFind(jff, "axes")
                            THEN PairsToMap(EmptyMap, jff.o["axes"].a, 1)
                            ELSE EmptyMap]])],
            Len(c.files) + 1,
            LoadAttributes(DoiOf(FileInfo(jff.o["name"].s)), jff,
                           SortKeys(JKeys(jff)), 1, {"name", "axes"},
                           {"string", "integer", "float"}))

\* "Set of files", from the n-th member of jf on
RECURSIVE LoadFiles(_, _, _, _)
NextLoadFile(c1, jf, keys, n) ==
    IF c1.thrown THEN c1 ELSE LoadFiles(c1, jf, keys, n + 1)

LoadFiles(c, jf, keys, n) ==
    IF n > Len(keys) THEN c
    ELSE NextLoadFile(LoadFile(c, keys[n], jf.o[keys[n]]), jf, keys, n)

\* "Load subaxes", from the n-th member of jaas on
RECURSIVE LoadSubAxes(_, _, _, _, _)
NextLoadSubAxis(c, ai, jaas, keys, n, r) ==
    IF r.thrown THEN Throw(c, r.err)
    ELSE LoadSubAxes([c EXCEPT !.axes[ai].val.m_vecSubAxis =
                            Append(@, [key |-> keys[n], val |-> r.sub])],
                     ai, jaas, keys, n + 1)

LoadSubAxes(c, ai, jaas, keys, n) ==
    IF n > Len(keys) THEN c
    ELSE NextLoadSubAxis(c, ai, jaas, keys, n, SubAxisFromJSON(jaas.o[keys[n]]))

\* "Load all attributes" of an axis
LoadAxisAttributes(c, ai, jaa) ==
    IF c.thrown THEN c
    ELSE LoadedAxis(c, ai,
            LoadAttributes(DoiOf(c.axes[ai].val), jaa, SortKeys(JKeys(jaa)), 1,
                           {"subaxes", "values", "size", "datatype"},
                           {"string", "integer", "float"}))

\* "Load subaxes" of an axis, if it has the member
LoadAxisSubAxes(c, ai, jaa) ==
    IF c.thrown THEN c
    ELSE IF ~JFind(jaa, "subaxes") THEN LoadAxisAttributes(c, ai, jaa)
    ELSE IF jaa.o["subaxes"].t \notin {"null", "object"}
    THEN Throw(c, "EXCEPTION: json invalid_iterator")
    ELSE LoadAxisAttributes(
            LoadSubAxes(c, ai, jaa.o["subaxes"],
                        SortKeys(JKeys(jaa.o["subaxes"])), 1),
            ai, jaa)

\* "Load values" of an axis: the variant "0" from the axis object itself
LoadAxisValues(c, ai, jaa) ==
    IF ~JFind(jaa, "size") THEN LoadAxisSubAxes(c, ai, jaa)
    ELSE LoadAxisSubAxes(
            NextLoadSubAxis(c, ai, jaa, <<"0">>, 1, SubAxisFromJSON(jaa)),
            ai, jaa)

\* LoadAxis as it would be without the throws on "subaxes" beside "values"
\* or "size"
LoadAxis_NoConflictCheck(c, strKey, jaa) ==
    IF ~JFind(jaa, "datatype")
    THEN Throw(c, "EXCEPTION: JSON axis entry missing datatype key")
    ELSE IF jaa.o["datatype"].t # "string"
    THEN Throw(c, "EXCEPTION: JSON axis datatype must be type string")
    ELSE LoadAxisSubAxes(
            [c EXCEPT !.axes = Append(@,
                [key |-> strKey,
                 val |-> [AxisInfo(strKey) EXCEPT !.nctype =
                            StringToNcType(jaa.o["datatype"].s)]])],
            Len(c.axes) + 1, jaa)

\* one axis entry jaa under the name strKey
LoadAxis(c, strKey, jaa) ==
    IF ~JFind(jaa, "datatype")
    THEN Throw(c, "EXCEPTION: JSON axis entry missing datatype key")
    ELSE IF jaa.o["datatype"].t # "string"
    THEN Throw(c, "EXCEPTION: JSON axis datatype must be type string")
    ELSE IF JFind(jaa, "subaxes") /\ JFind(jaa, "values")
    THEN Throw(c, "EXCEPTION: axis \"" \o strKey \o "\" specifies both \"values\" and \"subaxes\"")
    ELSE IF JFind(jaa, "subaxes") /\ JFind(jaa, "size")
    THEN Throw(c, "EXCEPTION: axis \"" \o strKey \o "\" specifies both \"size\" and \"subaxes\"")
    ELSE LoadAxisValues(
            [c EXCEPT !.axes = Append(@,
                [key |-> strKey,
                 val |-> [AxisInfo(strKey) EXCEPT !.nctype =
                            StringToNcType(jaa.o["datatype"].s)]])],
            Len(c.axes) + 1, jaa)

\* "Set of axes", from the n-th member of ja on
RECURSIVE LoadAxes(_, _, _, _)
NextLoadAxis(c1, ja, keys, n) ==
    IF c1.thrown THEN c1 ELSE LoadAxes(c1, ja, keys, n + 1)

LoadAxes(c, ja, keys, n) ==
    IF n > Len(keys) THEN c
    ELSE NextLoadAxis(LoadAxis(c, keys[n], ja.o[keys[n]]), ja, keys, n)

\* "Load all attributes" of a variable
LoadVariableAttributes(c, vi, jvv) ==
    IF c.thrown THEN c
    ELSE LoadedVariable(c, vi,
            LoadAttributes(DoiOf(c.variables[vi].val), jvv, SortKeys(JKeys(jvv)), 1,
                           {"axisids", "subaxismap", "axisgroups", "datatype"},
                           {"string", "integer", "float"}))

\* the loop over the members of "axisgroups", from the n-th on
RECURSIVE LoadAxisGroups(_, _, _, _, _)
NextLoadAxisGroup(c, vi, jg, keys, n, r) ==
    IF r.thrown THEN Throw(c, r.err)
    ELSE LoadAxisGroups([c EXCEPT !.variables[vi].val.m_mapSubAxisToFileIdMaps = r.maps],
                        vi, jg, keys, n + 1)

LoadAxisGroups(c, vi, jg, keys, n) ==
    IF n > Len(keys) THEN c
    ELSE NextLoadAxisGroup(c, vi, jg, keys, n,
            SubAxisToFileIdMapFromJSON(
                c.variables[vi].val.m_mapSubAxisToFileIdMaps, jg.o[keys[n]]))

\* "Load axisgroups" of a variable
LoadVariableGroups(c, vi, strKey, jvv) ==
    IF ~JFind(jvv, "axisgroups")
    THEN LoadVariableAttributes(
            NextLoadAxisGroup(c, vi, jvv, <<>>, 1,
                SubAxisToFileIdMapFromJSON(
                    c.variables[vi].val.m_mapSubAxisToFileIdMaps, jvv)),
            vi, jvv)
    ELSE IF JFind(jvv, "axisids")
    THEN Throw(c, "EXCEPTION: variable \"" \o strKey \o "\" specifies both \"axisgroups\" and \"axisids\"")
    ELSE IF JFind(jvv, "subaxismap")
    THEN Throw(c, "EXCEPTION: variable \"" \o strKey \o "\" specifies both \"axisgroups\" and \"subaxismap\"")
    ELSE IF jvv.o["axisgroups"].t \notin {"null", "object"}
    THEN Throw(c, "EXCEPTION: json invalid_iterator")
    ELSE LoadVariableAttributes(
            LoadAxisGroups(c, vi, jvv.o["axisgroups"],
                           SortKeys(JKeys(jvv.o["axisgroups"])), 1),
            vi, jvv)

\* one variable entry jvv under the name strKey
LoadVariable(c, strKey, jvv) ==
    IF ~JFind(jvv, "datatype")
    THEN Throw(c, "EXCEPTION: JSON variable missing datatype key")
    ELSE IF jvv.o["datatype"].t # "string"
    THEN Throw(c, "EXCEPTION: JSON variable datatype must be type string")
    ELSE LoadVariableGroups(
            [c EXCEPT !.variables = Append(@,
                [key |-> strKey,
                 val |-> [VariableInfo(strKey) EXCEPT !.nctype =
                            StringToNcType(jvv.o["datatype"].s)]])],
            Len(c.variables) + 1, strKey, jvv)

\* "Set of variables", from the n-th member of jv on
RECURSIVE LoadVariables(_, _, _, _)
NextLoadVariable(c1, jv, keys, n) ==
    IF c1.thrown THEN c1 ELSE LoadVariables(c1, jv, keys, n + 1)

LoadVariables(c, jv, keys, n) ==
    IF n > Len(keys) THEN c
    ELSE NextLoadVariable(LoadVariable(c, keys[n], jv.o[keys[n]]), jv, keys, n)

\* the blocks "VariableInfo", "AxisInfo", "FileInfo" of FromJSONFile, each
\* entered with the catalog the block before it left
LoadVariablesBlock(c, j) ==
    IF c.thrown THEN c
    ELSE IF ~JFind(j, "variables")
    THEN Throw(c, "EXCEPTION: JSON file missing variables key")
    ELSE LoadVariables(c, j.o["variables"], SortKeys(JKeys(j.o["variables"])), 1)

LoadAxesBlock(c, j) ==
    IF c.thrown THEN c
    ELSE IF ~JFind(j, "axes")
    THEN Throw(c, "EXCEPTION: JSON file missing axes key")
    ELSE LoadVariablesBlock(
            LoadAxes(c, j.o["axes"], SortKeys(JKeys(j.o["axes"])), 1), j)

LoadFilesBlock(c, j) ==
    IF c.thrown THEN c
    ELSE IF ~JFind(j, "file")
    THEN Throw(c, "EXCEPTION: JSON file missing file key")
    ELSE LoadAxesBlock(
            LoadFiles(c, j.o["file"], SortKeys(JKeys(j.o["file"])), 1), j)

\* IndexedDataset::FromJSONFile on the catalog c, j being the document read
FromJSON(c, j) == LoadFilesBlock(LoadDataset(c, j), j)

----------------------------------------------------------------------------
(* The files on disk *)

NcDim(name, size) == [name |-> name, size |-> size]

NcVar(name, type, units, atts, dims, values) ==
    [name |-> name, type |-> type, units |-> units, atts |-> atts,
     dims |-> dims, values |-> values]

NcFile(name, atts, dims, ncvars) ==
    [name |-> name, valid |-> TRUE, atts |-> atts, dims |-> dims, vars |-> ncvars]

\* a path at which NcFile::is_valid() fails
BadFile(name) ==
    [name |-> name, valid |-> FALSE, atts |-> <<>>, dims |-> <<>>, vars |-> <<>>]

\* the data variable most files carry: T(lev), Float, in K
VarT == NcVar("T", "Float", "K", <<<<"long_name", "temp">>, <<"cell", "mean">>>>,
              <<"lev">>, <<>>)

\* coordinate variable lev(lev) of the given type and values
VarLev(type, units, atts, values) ==
    NcVar("lev", type, units, atts, <<"lev">>, values)

LevAtts == <<<<"long_name", "level">>, <<"axis", "Z">>>>

\* a file with dimension lev, coordinate variable lev and T(lev)
LevFile(name, type, values) ==
    NcFile(name, <<>>, <<NcDim("lev", Len(values))>>,
           <<VarLev(type, "m", LevAtts, values), VarT>>)

\* a file with dimension lev and T(lev) but a coordinate variable of its own
LevVarFile(name, varLev) ==
    NcFile(name, <<>>, <<NcDim("lev", Len(varLev.values))>>, <<varLev, VarT>>)

\* a file with dimension lev of the given size, no coordinate variable, and T(lev)
BareFile(name, size) ==
    NcFile(name, <<>>, <<NcDim("lev", size)>>, <<VarT>>)

\* a file with lev = [0] (Double) and the given data variables
VarFile(name, ncvars) ==
    NcFile(name, <<>>, <<NcDim("lev", 1)>>,
           <<VarLev("Double", "m", LevAtts, <<0>>)>> \o ncvars)

\* a file with lev = [0] (Double), T(lev) and the given global attributes
AttFile(name, atts) ==
    NcFile(name, atts, <<NcDim("lev", 1)>>,
           <<VarLev("Double", "m", LevAtts, <<0>>), VarT>>)

\* Double coordinates within and beyond the tolerance of each other
DiskDouble ==
    { LevFile("d" \o to_string(v), "Double", <<v>>) : v \in 0..MaxVal }
    \cup { LevFile("e" \o to_string(v), "Double", <<0, v>>) : v \in {0, MaxVal} }

\* coordinate variables of every type, and none at all
DiskTypes ==
    { LevFile("f0", "Float", <<0>>),
      LevFile("f2", "Float", <<MaxVal>>),
      LevFile("g0", "Double", <<0>>),
      LevFile("i0", "Int", <<0>>),
      BareFile("n1", 1) }

\* dimensions without coordinate variable; coordinate variables whose units
\* and attributes differ
DiskAxes ==
    { BareFile("n1", 1),
      BareFile("n2", 2),
      LevFile("g0", "Double", <<0>>),
      LevVarFile("u0", VarLev("Double", "km", LevAtts, <<0>>)),
      LevVarFile("k0", VarLev("Double", "m",
                    <<<<"long_name", "height">>, <<"axis", "Z">>>>, <<0>>)),
      LevVarFile("k1", VarLev("Double", "m", <<<<"axis", "Z">>>>, <<MaxVal>>)) }

\* data variables whose type and units agree and disagree with T
DiskVars ==
    { VarFile("v0", <<VarT>>),
      VarFile("v1", <<[VarT EXCEPT !.type = "Double"]>>),
      VarFile("v2", <<[VarT EXCEPT !.units = "C"]>>),
      NcFile("v8", <<>>, <<NcDim("lev", 1)>>,
             <<VarLev("Double", "m", LevAtts, <<MaxVal>>),
               NcVar("Q", "Float", "1", <<>>, <<"lev">>, <<>>),
               [VarT EXCEPT !.type = "Double"]>>),
      NcFile("v9", <<>>, <<NcDim("lev", 1)>>,
             <<VarLev("Double", "m", LevAtts, <<MaxVal>>), VarT>>),
      NcFile("v10", <<>>, <<NcDim("lev", 1), NcDim("z", 1)>>,
             <<VarLev("Double", "m", LevAtts, <<0>>),
               NcVar("z", "Int", "m", <<>>, <<"z">>, <<0>>),
               [VarT EXCEPT !.type = "Double"]>>) }

\* data variables whose attributes and dimensions agree and disagree with T
DiskVarAtts ==
    { VarFile("v0", <<VarT>>),
      VarFile("v3", <<[VarT EXCEPT !.atts = <<<<"long_name", "other">>, <<"cell", "mean">>>>]>>),
      VarFile("v4", <<[VarT EXCEPT !.atts = <<<<"cell", "mean">>>>]>>),
      VarFile("v5", <<[VarT EXCEPT !.atts = <<<<"long_name", "temp">>, <<"cell", "max">>>>]>>),
      VarFile("v6", <<[VarT EXCEPT !.atts = <<<<"long_name", "temp">>, <<"cell", "mean">>,
                                               <<"grid_type", "ll">>>>]>>),
      VarFile("v7", <<[VarT EXCEPT !.dims = <<>>]>>),
      VarFile("v8", <<[VarT EXCEPT !.atts = <<<<"long_name", "temp">>>>]>>) }

\* unreadable files and global attributes
DiskAtts ==
    { BadFile("bad"),
      AttFile("a0", <<<<"Conventions", "CF">>, <<"title", "A">>, <<"source", "S">>>>),
      AttFile("a1", <<<<"Conventions", "CF">>, <<"title", "B">>, <<"source", "S">>>>),
      AttFile("a2", <<<<"History", "h">>, <<"units", "x">>>>) }

\* malformed coordinate variables, name clashes, several dimensions
DiskMisc ==
    { LevFile("g0", "Double", <<0>>),
      NcFile("x0", <<>>, <<NcDim("x", 1)>>,
             <<NcVar("lev", "Float", "", <<>>, <<"x">>, <<>>)>>),
      NcFile("x1", <<>>, <<NcDim("lev", 1), NcDim("x", 1)>>,
             <<NcVar("lev", "Double", "m", LevAtts, <<"lev", "x">>, <<0>>), VarT>>),
      NcFile("x2", <<>>, <<NcDim("x", 1), NcDim("lev", 1)>>,
             <<NcVar("lev", "Double", "m", LevAtts, <<"x">>, <<0>>), VarT>>),
      NcFile("x3", <<>>, <<NcDim("x", 2), NcDim("lev", 1)>>,
             <<VarLev("Double", "m", LevAtts, <<0>>),
               [VarT EXCEPT !.dims = <<"x", "lev">>]>>) }

Disks == {DiskDouble, DiskTypes, DiskAxes, DiskVars, DiskVarAtts, DiskAtts, DiskMisc}

\* the base directory handed to IndexVariableData
BaseDir == "/data/"

\* the file lists a caller can pass: up to MaxList files of the disk
RECURSIVE FileLists(_, _)
FileLists(D, n) ==
    IF n = 0 THEN {<<>>}
    ELSE FileLists(D, n - 1)
         \cup { Append(l, f) : l \in { m \in FileLists(D, n - 1) : Len(m) = n - 1 },
                                f \in D }

----------------------------------------------------------------------------
(* The JSON documents written by hand *)

\* the object with the given <<name, value>> members
JMembers(members) ==
    JObject([x \in { members[i][1] : i \in 1..Len(members) } |->
                members[CHOOSE i \in 1..Len(members) : members[i][1] = x][2]])

JStrings(seq) == JArray([i \in 1..Len(seq) |-> JString(seq[i])])

\* a variant of a Double axis with the one value v
SubAxisDocument(v) ==
    JMembers(<<<<"datatype", JString("double")>>, <<"size", JInteger(1)>>,
               <<"values", JArray(<<JFloat(v)>>)>>>>)

\* an axis with its one variant on the axis object
AxisInline == JSet(SubAxisDocument(0), "units", JString("m"))

\* an axis with two variants under "subaxes"
AxisNested ==
    JMembers(<<<<"datatype", JString("double")>>, <<"units", JString("m")>>,
               <<"subaxes", JMembers(<<<<"0", SubAxisDocument(0)>>,
                                       <<"1", SubAxisDocument(MaxVal)>>>>)>>>>)

\* axes with "subaxes" and, against the format, "values" or "size" as well
AxisBothValues == JSet(AxisNested, "values", JArray(<<JFloat(0)>>))

AxisBothSize == JSet(AxisNested, "size", JInteger(1))

\* one axis group: the axis names and the rows of the location index
GroupDocument(ids, rows) ==
    JMembers(<<<<"axisids", JStrings(ids)>>,
               <<"subaxismap", JArray([i \in 1..Len(rows) |-> JStrings(rows[i])])>>>>)

\* a variable with its one axis group on the variable object
VariableInline ==
    JSet(JSet(GroupDocument(<<"lev">>, <<<<"0", "0">>>>),
              "datatype", JString("float")),
         "units", JString("K"))

\* a variable with two axis groups under "axisgroups"
VariableGrouped ==
    JMembers(<<<<"datatype", JString("float")>>, <<"units", JString("K")>>,
               <<"axisgroups",
                 JMembers(<<<<"0", GroupDocument(<<"lev">>, <<<<"0", "0">>>>)>>,
                            <<"1", GroupDocument(<<"x", "lev">>,
                                                 <<<<"0", "1", "1">>>>)>>>>)>>>>)

\* variables with "axisgroups" and, against the format, "axisids" or
\* "subaxismap" as well
VariableBothIds == JSet(VariableGrouped, "axisids", JStrings(<<"lev">>))

VariableBothMap ==
    JSet(VariableGrouped, "subaxismap", JArray(<<JStrings(<<"0", "0">>)>>))

\* a document with one file, the axis lev and the variable T
Document(jAxis, jVariable) ==
    JMembers(<<
        <<"dataset", JMembers(<<<<"title", JString("A")>>>>)>>,
        <<"file", JMembers(<<<<"0",
              JMembers(<<<<"name", JString("/data/g0")>>,
                         <<"axes", JArray(<<JStrings(<<"lev", "0">>)>>)>>>>)>>>>)>>,
        <<"axes", JMembers(<<<<"lev", jAxis>>>>)>>,
        <<"variables", JMembers(<<<<"T", jVariable>>>>)>> >>)

Documents ==
    { Document(jAxis, jVariable) :
        jAxis \in {AxisInline, AxisNested, AxisBothValues, AxisBothSize},
        jVariable \in {VariableInline, VariableGrouped, VariableBothIds,
                       VariableBothMap} }

\* j with the member at the end of the path of names replaced by val, and
\* with that member removed
RECURSIVE JSetIn(_, _, _)
JSetIn(j, path, val) ==
    IF Len(path) = 1 THEN JSet(j, path[1], val)
    ELSE JSet(j, path[1], JSetIn(JRef(j, path[1]), Tail(path), val))

RECURSIVE JRemoveIn(_, _)
JRemoveIn(j, path) ==
    IF Len(path) = 1
    THEN JObject([x \in JKeys(j) \ {path[1]} |-> j.o[x]])
    ELSE JSet(j, path[1], JRemoveIn(JRef(j, path[1]), Tail(path)))

\* documents that lack a member FromJSONFile requires, or hold a value of
\* another type in its place
MalformedDocuments ==
    { JRemoveIn(Document(AxisInline, VariableInline), path) : path \in
        { <<"dataset">>, <<"file">>, <<"axes">>, <<"variables">>,
          <<"file", "0", "name">>,
          <<"axes", "lev", "datatype">>,
          <<"axes", "lev", "size">>,
          <<"variables", "T", "datatype">>,
          <<"variables", "T", "axisids">>,
          <<"variables", "T", "subaxismap">> } }
    \cup
    { JRemoveIn(Document(AxisNested, VariableGrouped), path) : path \in
        { <<"variables", "T", "axisgroups", "1", "axisids">>,
          <<"variables", "T", "axisgroups", "1", "subaxismap">>,
          <<"axes", "lev", "subaxes", "1", "datatype">>,
          <<"axes", "lev", "subaxes", "1", "size">> } }
    \cup
    { JSetIn(Document(AxisInline, VariableInline), <<"axes", "lev", k>>, JString("1")) :
        k \in {"size"} }
    \cup
    { JSetIn(Document(AxisInline, VariableInline), <<"axes", "lev", k>>, JInteger(1)) :
        k \in {"datatype"} }
    \cup
    { JSetIn(Document(AxisInline, VariableInline), <<"variables", "T", k>>, JInteger(1)) :
        k \in {"datatype", "subaxismap"} }
    \cup
    { JSetIn(Document(AxisInline, VariableInline), <<"variables", "T", "subaxismap">>,
             JArray(<<row>>)) :
        row \in { JString("0"), JArray(<<>>),
                  JArray(<<JString("0"), JInteger(0)>>) } }
    \cup
    { JSetIn(Document(AxisNested, VariableGrouped), <<"axes", "lev", "subaxes", "1", "size">>,
             JFloat(1)),
      JSetIn(Document(AxisNested, VariableGrouped),
             <<"variables", "T", "axisgroups", "1", "subaxismap">>, JString("0")) }

----------------------------------------------------------------------------
(* The state machine *)

EmptyCatalog ==
    [datainfo |-> DataObjectInfo(""), files |-> <<>>, axes |-> <<>>,
     variables |-> <<>>]

NoFile == BadFile("")

\* no file at the path of the JSON document
NoDocument == [t |-> "none"]

InitCatalog ==
    /\ disk \in Disks
    /\ m_datainfo = DataObjectInfo("")
    /\ m_vecFileInfo = <<>>
    /\ m_vecAxisInfo = <<>>
    /\ m_vecVariableInfo = <<>>
    /\ strError = ""
    /\ thrown = FALSE
    /\ vecFilenames = <<>>
    /\ sBegin = 0
    /\ nDone = 0
    /\ preLast = EmptyCatalog
    /\ fileLast = NoFile
    /\ opened = <<>>
    /\ openedErr = <<>>
    /\ lookup = <<>>

Init ==
    /\ InitCatalog
    /\ json = NoDocument
    /\ loaded = <<>>
    /\ proc = [r \in {0} |-> "main"]   \* one process without mpirun

IsValid(ncFile) == ncFile.valid

Catalog ==
    [datainfo |-> m_datainfo, files |-> m_vecFileInfo, axes |-> m_vecAxisInfo,
     variables |-> m_vecVariableInfo]

\* what a call leaves behind; r is the result of IndexVariableDataFrom
Outcome(files, r) ==
    /\ m_datainfo' = r.st.datainfo
    /\ m_vecFileInfo' = r.st.files
    /\ m_vecAxisInfo' = r.st.axes
    /\ m_vecVariableInfo' = r.st.variables
    /\ strError' = r.st.err
    /\ thrown' = r.st.thrown
    /\ vecFilenames' = files
    /\ sBegin' = Len(m_vecFileInfo)
    /\ nDone' = r.fLast
    /\ preLast' = r.pre
    /\ fileLast' = IF r.fLast = 0 THEN NoFile ELSE files[r.fLast]
    /\ opened' = opened \o SelectSeq(SubSeq(files, 1, r.fLast), IsValid)
    /\ openedErr' = openedErr \o
           [k \in 1..(Len(r.st.files) - Len(m_vecFileInfo)) |->
               IF k = Len(r.st.files) - Len(m_vecFileInfo)
               THEN r.st.err ELSE ""]

\* IndexVariableData as it would be if every call began with an empty catalog
IndexVariableData_FromEmpty(files) ==
    /\ ~thrown
    /\ json.t = "none"
    /\ loaded = <<>>
    /\ Len(m_vecFileInfo) + Len(files) <= MaxFiles
    /\ Outcome(files,
               IndexVariableDataFrom(
                   [datainfo |-> DataObjectInfo(""), files |-> <<>>,
                    axes |-> <<>>, variables |-> <<>>,
                    err |-> "", thrown |-> FALSE],
                   Catalog, BaseDir, files, 1))
    /\ UNCHANGED <<disk, json, loaded, proc, lookup>>

\* strError = objFileList.IndexVariableData(strBaseDir, files)
IndexVariableData(files) ==
    /\ ~thrown
    /\ json.t = "none"
    /\ loaded = <<>>
    /\ Len(m_vecFileInfo) + Len(files) <= MaxFiles
    /\ Outcome(files,
               IndexVariableDataFrom(
                   [datainfo |-> m_datainfo, files |-> m_vecFileInfo,
                    axes |-> m_vecAxisInfo, variables |-> m_vecVariableInfo,
                    err |-> "", thrown |-> FALSE],
                   Catalog, BaseDir, files, 1))
    /\ UNCHANGED <<disk, json, loaded, proc, lookup>>

Next == \E files \in FileLists(disk, MaxList) : IndexVariableData(files)

Spec == Init /\ [][Next]_vars

\* the names a caller asks for: variables of the files, an axis, no name
LookupNames == {"T", "Q", "lev", ""}

\* position of the first entry from i on whose m_strName is the name, 0 if
\* the loop "for (size_t i = 0; i < m_vecVariableInfo.size(); i++)" runs out
RECURSIVE GetVariableInfoFrom(_, _, _)
GetVariableInfoFrom(vec, strVariableName, i) ==
    IF i > Len(vec) THEN 0
    ELSE IF vec[i].val.name = strVariableName THEN i
    ELSE GetVariableInfoFrom(vec, strVariableName, i + 1)

\* GetVariableInfo as it would be if it made an entry for an unknown name
GetVariableInfo_Inserting(strVariableName) ==
    /\ ~thrown
    /\ lookup' = <<[name |-> strVariableName,
                    ret |-> IF GetVariableInfoFrom(m_vecVariableInfo, strVariableName, 1) = 0
                            THEN Len(m_vecVariableInfo) + 1
                            ELSE GetVariableInfoFrom(m_vecVariableInfo, strVariableName, 1)]>>
    /\ m_vecVariableInfo' =
           IF GetVariableInfoFrom(m_vecVariableInfo, strVariableName, 1) = 0
           THEN Append(m_vecVariableInfo,
                       [key |-> strVariableName, val |-> VariableInfo(strVariableName)])
           ELSE m_vecVariableInfo
    /\ UNCHANGED <<disk, m_datainfo, m_vecFileInfo, m_vecAxisInfo, strError,
                   thrown, vecFilenames, sBegin, nDone, preLast, fileLast,
                   opened, openedErr, json, loaded, proc>>

\* pvarinfo = objFileList.GetVariableInfo(strVariableName), a const method
GetVariableInfo(strVariableName) ==
    /\ ~thrown
    /\ lookup' = <<[name |-> strVariableName,
                    ret |-> GetVariableInfoFrom(m_vecVariableInfo, strVariableName, 1)]>>
    /\ UNCHANGED <<disk, m_datainfo, m_vecFileInfo, m_vecAxisInfo,
                   m_vecVariableInfo, strError, thrown, vecFilenames, sBegin,
                   nDone, preLast, fileLast, opened, openedErr, json, loaded,
                   proc>>

\* a caller builds the catalog and then looks variables up in it
NextLookup ==
    \/ lookup = <<>> /\ Next
    \/ \E strVariableName \in LookupNames : GetVariableInfo(strVariableName)

SpecLookup == Init /\ [][NextLookup]_vars

\* a document written by hand may lie at the path before the program runs
InitJSON ==
    /\ InitCatalog
    /\ json \in {NoDocument} \cup Documents \cup MalformedDocuments
    /\ loaded = <<>>
    /\ proc = [r \in {0} |-> "main"]   \* one process without mpirun

\* objFileList.ToJSONFile(strOutputFilename)
ToJSONFile ==
    /\ ~thrown
    /\ json.t = "none"
    /\ loaded = <<>>
    /\ json' = ToJSON(Catalog)
    /\ UNCHANGED <<disk, m_datainfo, m_vecFileInfo, m_vecAxisInfo,
                   m_vecVariableInfo, strError, thrown, vecFilenames, sBegin,
                   nDone, preLast, fileLast, opened, openedErr, loaded, proc,
                   lookup>>

\* objFileList.FromJSONFile(strInputFilename) of a later run of the program
FromJSONFile ==
    /\ json.t # "none"
    /\ loaded = <<>>
    /\ loaded' = <<FromJSON([datainfo |-> DataObjectInfo(""), files |-> <<>>,
                             axes |-> <<>>, variables |-> <<>>,
                             err |-> "", thrown |-> FALSE], json)>>
    /\ UNCHANGED <<disk, m_datainfo, m_vecFileInfo, m_vecAxisInfo,
                   m_vecVariableInfo, strError, thrown, vecFilenames, sBegin,
                   nDone, preLast, fileLast, opened, openedErr, json, proc,
                   lookup>>

NextJSON ==
    \/ /\ json.t = "none"
       /\ \E files \in FileLists(disk, MaxList) : IndexVariableData(files)
    \/ ToJSONFile
    \/ FromJSONFile

SpecJSON == InitJSON /\ [][NextJSON]_vars

----------------------------------------------------------------------------
(* main under mpirun (HYPERION_MPIOMP)                                     *)
(* Every process runs main with the same command line.  The processes do   *)
(* not exchange anything while they ingest, so each of them builds the     *)
(* catalog below; they part ways where they reach the output files.  The   *)
(* positions of a process are "main" (before the output), "SaveFile"       *)
(* (inside xmlDoc.SaveFile, the XML path open for writing), "xml"          *)
(* (ToXMLFile returned), "ofJSON" (the stream ofJSON open on the JSON      *)
(* path) and "done".                                                       *)

InitMPI ==
    /\ InitCatalog
    /\ json = NoDocument
    /\ loaded = <<>>
    /\ proc = [r \in 0..MaxRank |-> "main"]

\* objFileList.PopulateFromFilePath(strFilePath, strFileName, fRecurse)
PopulateFromFilePath ==
    /\ \A r \in 0..MaxRank : proc[r] = "main"
    /\ m_vecFileInfo = <<>>
    /\ \E files \in FileLists(disk, MaxList) : IndexVariableData(files)

\* ToXMLFile up to xmlDoc.SaveFile(strXMLOutputFilename.c_str())
ToXMLFileSave(r) ==
    /\ strError = "" /\ ~thrown /\ vecFilenames # <<>>
    /\ proc[r] = "main"
    /\ proc' = [proc EXCEPT ![r] = "SaveFile"]
    /\ UNCHANGED <<disk, m_datainfo, m_vecFileInfo, m_vecAxisInfo,
                   m_vecVariableInfo, strError, thrown, vecFilenames, sBegin,
                   nDone, preLast, fileLast, opened, openedErr, json, loaded,
                   lookup>>

\* SaveFile returns and so does ToXMLFile
ToXMLFileReturn(r) ==
    /\ proc[r] = "SaveFile"
    /\ proc' = [proc EXCEPT ![r] = "xml"]
    /\ UNCHANGED <<disk, m_datainfo, m_vecFileInfo, m_vecAxisInfo,
                   m_vecVariableInfo, strError, thrown, vecFilenames, sBegin,
                   nDone, preLast, fileLast, opened, openedErr, json, loaded,
                   lookup>>

\* std::ofstream ofJSON(strJSONOutputFilename.c_str()): the path is
\* created or truncated; out_xml may have been left out
ToJSONFileOpen(r) ==
    /\ strError = "" /\ ~thrown /\ vecFilenames # <<>>
    /\ proc[r] \in {"main", "xml"}
    /\ proc' = [proc EXCEPT ![r] = "ofJSON"]
    /\ json' = JNull
    /\ UNCHANGED <<disk, m_datainfo, m_vecFileInfo, m_vecAxisInfo,
                   m_vecVariableInfo, strError, thrown, vecFilenames, sBegin,
                   nDone, preLast, fileLast, opened, openedErr, loaded, lookup>>

\* ofJSON << j, and ofJSON is closed when ToJSONFile returns
ToJSONFileWrite(r) ==
    /\ proc[r] = "ofJSON"
    /\ proc' = [proc EXCEPT ![r] = "done"]
    /\ json' = ToJSON(Catalog)
    /\ UNCHANGED <<disk, m_datainfo, m_vecFileInfo, m_vecAxisInfo,
                   m_vecVariableInfo, strError, thrown, vecFilenames, sBegin,
                   nDone, preLast, fileLast, opened, openedErr, loaded, lookup>>

NextMPI ==
    \/ PopulateFromFilePath
    \/ \E r \in 0..MaxRank : ToXMLFileSave(r)
    \/ \E r \in 0..MaxRank : ToXMLFileReturn(r)
    \/ \E r \in 0..MaxRank : ToJSONFileOpen(r)
    \/ \E r \in 0..MaxRank : ToJSONFileWrite(r)

SpecMPI == InitMPI /\ [][NextMPI]_vars

----------------------------------------------------------------------------
(* Vocabulary of the properties *)

AxisNames == { m_vecAxisInfo[a].key : a \in 1..Len(m_vecAxisInfo) }

\* the AxisInfo of a known axis
AxisOf(A) == m_vecAxisInfo[Find(m_vecAxisInfo, A)].val

\* the value array a SubAxis holds
ValuesOf(sub) ==
    IF sub.nctype = "Double" THEN sub.doubles
    ELSE IF sub.nctype = "Float" THEN sub.floats
    ELSE sub.ints

\* the file with id i-1 supplied a coordinate variable for A and got a variant id
Contributes(i, A) ==
    /\ A \in DOMAIN m_vecFileInfo[i].val.m_mapAxisSubAxis
    /\ get_var(opened[i], A) # 0

CoordVar(i, A) == opened[i].vars[get_var(opened[i], A)]

VariantOf(i, A) == m_vecFileInfo[i].val.m_mapAxisSubAxis[A]

\* the equality rule for coordinate arrays: same length, elements within tolerance
EqualUnderRule(x, y) ==
    /\ Len(x) = Len(y)
    /\ \A s \in 1..Len(x) : almost_equal(x[s], y[s])

\* two files supplied coordinate arrays of one type for A, equal under the rule
EqualContributions(i, j, A) ==
    /\ Contributes(i, A) /\ Contributes(j, A)
    /\ CoordVar(i, A).type = CoordVar(j, A).type
    /\ EqualUnderRule(CoordVar(i, A).values, CoordVar(j, A).values)

\* no retained variant of A is within tolerance of one of the two arrays only
Unambiguous(i, j, A) ==
    \A k \in 1..Len(AxisOf(A).m_vecSubAxis) :
        LET v == ValuesOf(AxisOf(A).m_vecSubAxis[k].val)
        IN  EqualUnderRule(v, CoordVar(i, A).values)
                <=> EqualUnderRule(v, CoordVar(j, A).values)

----------------------------------------------------------------------------
(* Deduplication of coordinate arrays *)

\* C1 as stated: any two files whose coordinate arrays for an axis have the
\* same element type and are equal under the equality rule hold the same
\* variant id for that axis.
EqualArraysShareVariant ==
    \A i, j \in 1..Len(m_vecFileInfo) : \A A \in AxisNames :
        EqualContributions(i, j, A) => VariantOf(i, A) = VariantOf(j, A)

\* C1 amended: two files whose coordinate arrays for an axis have the same
\* element type and are equal under the rule hold the same variant id
\* provided no retained variant of the axis is within tolerance of one of the
\* two arrays and not of the other (always so for identical arrays).
EqualArraysShareVariantUnlessAmbiguous ==
    \A i, j \in 1..Len(m_vecFileInfo) : \A A \in AxisNames :
        (EqualContributions(i, j, A) /\ Unambiguous(i, j, A))
            => VariantOf(i, A) = VariantOf(j, A)

\* C1 witness: two non-adjacent files with different arrays within tolerance
\* share a variant id although another variant was retained in between
SharedVariantAcrossOthers ==
    \E i, j \in 1..Len(m_vecFileInfo) : \E A \in AxisNames :
        /\ j > i + 1
        /\ EqualContributions(i, j, A) /\ Unambiguous(i, j, A)
        /\ CoordVar(i, A).values # CoordVar(j, A).values
        /\ VariantOf(i, A) = VariantOf(j, A)
        /\ Len(AxisOf(A).m_vecSubAxis) >= 2

\* C2 as stated: any two files whose coordinate arrays for an axis differ in
\* length or in some element beyond the tolerance hold distinct variant ids,
\* for Float as for Double.
DifferentArraysDistinctVariants ==
    \A i, j \in 1..Len(m_vecFileInfo) : \A A \in AxisNames :
        ( /\ Contributes(i, A) /\ Contributes(j, A)
          /\ CoordVar(i, A).type \in {"Float", "Double"}
          /\ CoordVar(i, A).type = CoordVar(j, A).type
          /\ ~EqualUnderRule(CoordVar(i, A).values, CoordVar(j, A).values) )
            => VariantOf(i, A) # VariantOf(j, A)

\* every axis with k variants has the ids "0".."k-1" in retention order
VariantIdsDense ==
    \A a \in 1..Len(m_vecAxisInfo) :
        \A k \in 1..Len(m_vecAxisInfo[a].val.m_vecSubAxis) :
            m_vecAxisInfo[a].val.m_vecSubAxis[k].key = to_string(k - 1)

\* a step keeps every axis, and every variant under its id with its contents
VariantsOnlyGrow ==
    /\ Len(m_vecAxisInfo) <= Len(m_vecAxisInfo')
    /\ \A a \in 1..Len(m_vecAxisInfo) :
        LET old == m_vecAxisInfo[a].val.m_vecSubAxis
            new == m_vecAxisInfo'[a].val.m_vecSubAxis
        IN  /\ m_vecAxisInfo'[a].key = m_vecAxisInfo[a].key
            /\ Len(old) <= Len(new)
            /\ \A k \in 1..Len(old) : new[k] = old[k]

\* C3: variant ids are dense ("0".."k-1" in retention order) in every
\* reachable state, and no ingest step removes a variant, changes what is
\* stored under an existing id or reassigns an id.
VariantIdsDenseAndStable == []VariantIdsDense /\ [][VariantsOnlyGrow]_vars

\* C3 witness: an axis holds two variants and the second one was found again
\* by a later file
SecondVariantReused ==
    \E i, j \in 1..Len(m_vecFileInfo) : \E A \in AxisNames :
        /\ i < j
        /\ Contributes(i, A) /\ Contributes(j, A)
        /\ VariantOf(i, A) = "1" /\ VariantOf(j, A) = "1"
        /\ Len(AxisOf(A).m_vecSubAxis) = 2

----------------------------------------------------------------------------
(* File ids *)

\* C4: the files of a list get the ids "0", "1", ... in input order: in every
\* reachable state the k-th FileInfo is stored under id k-1 and holds the
\* name of the k-th file opened, the files opened by the last call are the
\* leading files of its list in order, whatever they contain, and a call
\* that returns no error has given an id to every file of its list (so a
\* fresh catalog fed N files holds exactly the ids "0".."N-1", the map from
\* id to file name being a function of the list alone).
FileIdsFollowInputOrder ==
    /\ Len(opened) = Len(m_vecFileInfo)
    /\ \A k \in 1..Len(m_vecFileInfo) :
        /\ m_vecFileInfo[k].key = to_string(k - 1)
        /\ m_vecFileInfo[k].val.m_strFilename = BaseDir \o opened[k].name
    /\ Len(m_vecFileInfo) - sBegin <= Len(vecFilenames)
    /\ \A k \in 1..(Len(m_vecFileInfo) - sBegin) :
        opened[sBegin + k] = vecFilenames[k]
    /\ strError = "" => Len(m_vecFileInfo) = sBegin + Len(vecFilenames)

\* C4 witness: a fresh catalog was fed a list of two files of different
\* contents without error and holds them under "0" and "1"
TwoFilesIngestedFresh ==
    /\ sBegin = 0 /\ strError = ""
    /\ Len(vecFilenames) >= 2
    /\ vecFilenames[1].vars # vecFilenames[2].vars
    /\ Len(m_vecFileInfo) = Len(vecFilenames)
    /\ m_vecFileInfo[2].key = "1"
    /\ m_vecFileInfo[2].val.m_strFilename = BaseDir \o vecFilenames[2].name

----------------------------------------------------------------------------
(* Location index *)

\* the file with id i-1 defines variable V over the dimensions g, and its
\* axis/subaxis map gives the variant ids t for them
Produces(i, V, g, t) ==
    /\ Len(t) = Len(g)
    /\ \A d \in 1..Len(g) :
        /\ g[d] \in DOMAIN m_vecFileInfo[i].val.m_mapAxisSubAxis
        /\ m_vecFileInfo[i].val.m_mapAxisSubAxis[g[d]] = t[d]
    /\ \E v \in 1..Len(opened[i].vars) :
        /\ opened[i].vars[v].name = V
        /\ opened[i].vars[v].dims = g

\* every (group, tuple) entry of a variable that is no axis names a file
\* that produced the key, and no file ingested without error before that
\* file produced it
FirstWriterWins ==
    \A vi \in 1..Len(m_vecVariableInfo) :
        m_vecVariableInfo[vi].key \notin AxisNames =>
        \A g \in DOMAIN m_vecVariableInfo[vi].val.m_mapSubAxisToFileIdMaps :
        \A t \in DOMAIN m_vecVariableInfo[vi].val.m_mapSubAxisToFileIdMaps[g] :
            \E j \in 1..Len(m_vecFileInfo) :
                /\ m_vecFileInfo[j].key =
                        m_vecVariableInfo[vi].val.m_mapSubAxisToFileIdMaps[g][t]
                /\ Produces(j, m_vecVariableInfo[vi].key, g, t)
                /\ \A i \in 1..(j - 1) :
                        ~(openedErr[i] = "" /\
                          Produces(i, m_vecVariableInfo[vi].key, g, t))

\* a step keeps every variable and every (group, tuple) entry with its file id
LocationIndexOnlyGrows ==
    /\ Len(m_vecVariableInfo) <= Len(m_vecVariableInfo')
    /\ \A vi \in 1..Len(m_vecVariableInfo) :
        /\ m_vecVariableInfo'[vi].key = m_vecVariableInfo[vi].key
        /\ \A g \in DOMAIN m_vecVariableInfo[vi].val.m_mapSubAxisToFileIdMaps :
            /\ g \in DOMAIN m_vecVariableInfo'[vi].val.m_mapSubAxisToFileIdMaps
            /\ \A t \in DOMAIN m_vecVariableInfo[vi].val.m_mapSubAxisToFileIdMaps[g] :
                /\ t \in DOMAIN m_vecVariableInfo'[vi].val.m_mapSubAxisToFileIdMaps[g]
                /\ m_vecVariableInfo'[vi].val.m_mapSubAxisToFileIdMaps[g][t] =
                        m_vecVariableInfo[vi].val.m_mapSubAxisToFileIdMaps[g][t]

\* C5: the location index is first-writer-wins and append-only: in every
\* reachable state each (group, tuple) key of a variable maps to one file id,
\* that of the earliest file that produced the key, also when later files
\* ingested without error produced the same key; and no ingest step removes
\* an existing (group, tuple) entry or changes its file id.
LocationIndexFirstWriterAppendOnly ==
    []FirstWriterWins /\ [][LocationIndexOnlyGrows]_vars

\* C5 witness: two files ingested without error produced the same key and
\* the entry holds the id of the first
KeyProducedTwice ==
    /\ strError = ""
    /\ \E vi \in 1..Len(m_vecVariableInfo) :
       \E g \in DOMAIN m_vecVariableInfo[vi].val.m_mapSubAxisToFileIdMaps :
       \E t \in DOMAIN m_vecVariableInfo[vi].val.m_mapSubAxisToFileIdMaps[g] :
       \E i, j \in 1..Len(m_vecFileInfo) :
            /\ i < j
            /\ openedErr[i] = "" /\ openedErr[j] = ""
            /\ Produces(i, m_vecVariableInfo[vi].key, g, t)
            /\ Produces(j, m_vecVariableInfo[vi].key, g, t)
            /\ m_vecVariableInfo[vi].val.m_mapSubAxisToFileIdMaps[g][t] =
                    m_vecFileInfo[i].key

----------------------------------------------------------------------------
(* Consistency of variables across files *)

\* the entry of variable V before and after the last file the last call reached
PreVar(V) == preLast.variables[Find(preLast.variables, V)].val

VarOf(V) == m_vecVariableInfo[Find(m_vecVariableInfo, V)].val

\* variable v of the last file reached is a repeat sighting: it is no
\* coordinate variable and its name had an entry before the file
RepeatSighting(v) ==
    /\ fileLast.valid
    /\ fileLast.vars[v].name \notin AxisNames
    /\ Find(preLast.variables, fileLast.vars[v].name) # 0

\* the sighting differs from the entry in units or in a key attribute
KeyMetadataMismatch(entry, var) ==
    \/ var.units # entry.units
    \/ \E a \in 1..Len(var.atts) :
        /\ var.atts[a][1] \in VarKeyNames
        /\ \/ var.atts[a][1] \notin DOMAIN entry.keyatts
           \/ entry.keyatts[var.atts[a][1]] # var.atts[a][2]
    \/ \E k \in DOMAIN entry.keyatts :
        \A a \in 1..Len(var.atts) : var.atts[a][1] # k

\* C6: when the last file reached defines a variable that has an entry
\* already but with another element type, ingestion ends with a non-empty
\* error and the entry (type, units, attributes, location index) is as it
\* was before the file.
VariableTypeMismatchRejected ==
    \A v \in 1..Len(fileLast.vars) :
        ( /\ RepeatSighting(v)
          /\ fileLast.vars[v].type # PreVar(fileLast.vars[v].name).nctype )
        => /\ strError # ""
           /\ VarOf(fileLast.vars[v].name) = PreVar(fileLast.vars[v].name)

\* C6 witness: the type comparison itself ended the ingestion of a file
\* that had indexed another variable before, and the entry holds a location
VariableTypeMismatchSeen ==
    /\ strError = "ERROR: Variable has inconsistent type across files"
    /\ ~thrown
    /\ \E v \in 2..Len(fileLast.vars) :
        /\ RepeatSighting(v)
        /\ fileLast.vars[v].type # PreVar(fileLast.vars[v].name).nctype
        /\ PreVar(fileLast.vars[v].name).m_mapSubAxisToFileIdMaps # EmptyMap
        /\ Find(m_vecVariableInfo, fileLast.vars[v - 1].name) # 0
        /\ Find(preLast.variables, fileLast.vars[v - 1].name) = 0

\* C7 as stated: when the last file reached defines a variable that has an
\* entry already and differs from it in units or in key attributes (another
\* value, a key attribute not recorded, or a recorded key attribute missing
\* from the sighting), ingestion ends with a non-empty error.
VariableKeyMismatchRejected ==
    \A v \in 1..Len(fileLast.vars) :
        ( /\ RepeatSighting(v)
          /\ KeyMetadataMismatch(PreVar(fileLast.vars[v].name), fileLast.vars[v]) )
        => strError # ""

----------------------------------------------------------------------------
(* Consistency of axes across files *)

\* the entry of axis A before the last file the last call reached
PreAxis(A) == preLast.axes[Find(preLast.axes, A)].val

\* dimension d of the last file reached names an axis known before the file
KnownAxis(d) ==
    /\ fileLast.valid
    /\ Find(preLast.axes, fileLast.dims[d].name) # 0

\* the coordinate variable the last file reached supplies for its dimension d
DimVar(d) == fileLast.vars[get_var(fileLast, fileLast.dims[d].name)]

\* the FileInfo of the last file reached, when it could be opened
LastFileInfo == m_vecFileInfo[Len(m_vecFileInfo)].val

\* C8: when the last file reached supplies a coordinate variable for an axis
\* known before and the variable's element type differs from the recorded
\* one, ingestion ends with a non-empty error and the axis has the variants
\* it had before the file.
AxisTypeMismatchRejected ==
    \A d \in 1..Len(fileLast.dims) :
        ( /\ KnownAxis(d)
          /\ get_var(fileLast, fileLast.dims[d].name) # 0
          /\ DimVar(d).type # PreAxis(fileLast.dims[d].name).nctype )
        => /\ strError # ""
           /\ AxisOf(fileLast.dims[d].name).m_vecSubAxis =
                    PreAxis(fileLast.dims[d].name).m_vecSubAxis

\* C8 witness: the type comparison itself ended the ingestion of a file
\* whose well-formed coordinate variable has another type than the axis,
\* which holds a variant
AxisTypeMismatchSeen ==
    /\ strError = "ERROR: Dimension variable type mismatch.  Possible duplicate dimension name in dataset."
    /\ \E d \in 1..Len(fileLast.dims) :
        /\ KnownAxis(d)
        /\ get_var(fileLast, fileLast.dims[d].name) # 0
        /\ DimVar(d).type # PreAxis(fileLast.dims[d].name).nctype
        /\ PreAxis(fileLast.dims[d].name).nctype # "NoType"
        /\ Len(PreAxis(fileLast.dims[d].name).m_vecSubAxis) >= 1

\* C9 as stated: when the last file reached supplies, for an axis known
\* before, a coordinate variable of the recorded type whose units or whose
\* value of a recorded key attribute differ from the axis's, ingestion ends
\* with a non-empty error.
AxisKeyMismatchRejected ==
    \A d \in 1..Len(fileLast.dims) :
        ( /\ KnownAxis(d)
          /\ get_var(fileLast, fileLast.dims[d].name) # 0
          /\ DimVar(d).type = PreAxis(fileLast.dims[d].name).nctype
          /\ \/ DimVar(d).units # PreAxis(fileLast.dims[d].name).units
             \/ \E a \in 1..Len(DimVar(d).atts) :
                 /\ DimVar(d).atts[a][1] \in
                        DOMAIN PreAxis(fileLast.dims[d].name).keyatts
                 /\ PreAxis(fileLast.dims[d].name).keyatts[DimVar(d).atts[a][1]]
                        # DimVar(d).atts[a][2] )
        => strError # ""

\* C10: when the last file reached defines, without coordinate variable, a
\* dimension whose axis was known before with a recorded element type,
\* ingestion ends with a non-empty error and the file's axis/subaxis map has
\* no entry for that axis.
MissingCoordinateVariableRejected ==
    \A d \in 1..Len(fileLast.dims) :
        ( /\ KnownAxis(d)
          /\ PreAxis(fileLast.dims[d].name).nctype # "NoType"
          /\ get_var(fileLast, fileLast.dims[d].name) = 0 )
        => /\ strError # ""
           /\ LastFileInfo.m_strFilename = BaseDir \o fileLast.name
           /\ fileLast.dims[d].name \notin DOMAIN LastFileInfo.m_mapAxisSubAxis

\* C10 witness: the missing coordinate variable itself ended the ingestion
\* of a file, which got a FileInfo
MissingCoordinateVariableSeen ==
    /\ strError = "ERROR: Dimension variable missing from file, but present in other files."
    /\ \E d \in 1..Len(fileLast.dims) :
        /\ KnownAxis(d)
        /\ PreAxis(fileLast.dims[d].name).nctype # "NoType"
        /\ get_var(fileLast, fileLast.dims[d].name) = 0
        /\ LastFileInfo.m_strFilename = BaseDir \o fileLast.name
        /\ Len(m_vecFileInfo) >= 2

----------------------------------------------------------------------------
(* Failures and what they leave behind *)

\* the catalog as a call finds it
Entering ==
    [datainfo |-> m_datainfo, files |-> m_vecFileInfo, axes |-> m_vecAxisInfo,
     variables |-> m_vecVariableInfo, err |-> "", thrown |-> FALSE]

\* the catalog a call on the first n files of the list would leave
AfterPrefix(files, n) ==
    CatalogOf(IndexVariableDataFrom(Entering, Catalog, BaseDir,
                                    SubSeq(files, 1, n), 1).st)

\* a call that reached an unreadable file k stopped there with an error,
\* gave it no file id and left the catalog as it was before that file
OpenFailureStops ==
    \A k \in 1..Len(vecFilenames) :
        (~vecFilenames[k].valid /\ nDone >= k)
        => /\ nDone = k
           /\ strError # "" /\ ~thrown
           /\ Catalog = preLast
           /\ Len(m_vecFileInfo) = sBegin + k - 1

\* a call that reached an unreadable file k leaves the catalog that the
\* call on files 1..k-1 alone leaves
OpenFailureLeavesPrefix ==
    \A k \in 1..Len(vecFilenames') :
        (~vecFilenames'[k].valid /\ nDone' >= k)
        => Catalog' = AfterPrefix(vecFilenames', k - 1)

\* C11: if the k-th file of the list cannot be opened, the call returns a
\* non-empty error at once; the catalog is the one reached after the files
\* before it (no file id for the unreadable file, no axis or variable
\* touched), and the files after it are not ingested by that call.
OpenFailureReturnsAtOnce ==
    []OpenFailureStops /\ [][OpenFailureLeavesPrefix]_vars

\* C11 witness: a call on a catalog that held files met an unreadable file
\* first in a list of two and ingested neither
UnreadableFileFirstOfTwo ==
    /\ sBegin >= 1
    /\ Len(vecFilenames) = 2
    /\ ~vecFilenames[1].valid /\ vecFilenames[2].valid
    /\ nDone = 1
    /\ strError = "Unable to open data file for reading"
    /\ Len(m_vecFileInfo) = sBegin

\* the catalog new extends the catalog old: every FileInfo of old is there
\* unchanged, every variant of every axis of old is there under its id with
\* its contents, every location-index entry of old is there with its file id
Extends(old, new) ==
    /\ Len(old.files) <= Len(new.files)
    /\ \A k \in 1..Len(old.files) : new.files[k] = old.files[k]
    /\ Len(old.axes) <= Len(new.axes)
    /\ \A a \in 1..Len(old.axes) :
        /\ new.axes[a].key = old.axes[a].key
        /\ Len(old.axes[a].val.m_vecSubAxis) <= Len(new.axes[a].val.m_vecSubAxis)
        /\ \A k \in 1..Len(old.axes[a].val.m_vecSubAxis) :
            new.axes[a].val.m_vecSubAxis[k] = old.axes[a].val.m_vecSubAxis[k]
    /\ Len(old.variables) <= Len(new.variables)
    /\ \A vi \in 1..Len(old.variables) :
        /\ new.variables[vi].key = old.variables[vi].key
        /\ \A g \in DOMAIN old.variables[vi].val.m_mapSubAxisToFileIdMaps :
            /\ g \in DOMAIN new.variables[vi].val.m_mapSubAxisToFileIdMaps
            /\ \A t \in DOMAIN old.variables[vi].val.m_mapSubAxisToFileIdMaps[g] :
                /\ t \in DOMAIN new.variables[vi].val.m_mapSubAxisToFileIdMaps[g]
                /\ new.variables[vi].val.m_mapSubAxisToFileIdMaps[g][t] =
                        old.variables[vi].val.m_mapSubAxisToFileIdMaps[g][t]

\* the last file a call reached kept what was committed before it
LastFileKeptCommitted == Extends(preLast, Catalog)

\* a call keeps what was committed before it
CallKeepsCommitted == Extends(Catalog, Catalog')

\* C12: no ingest step, whether it succeeds or ends in an error, changes
\* what was committed for the files ingested before: their FileInfo
\* (filename, attributes, axis/subaxis map), what is stored under every
\* existing variant id, and every existing location-index entry are the same
\* before and after, for a whole call and for each file within it.
CommittedStateNeverCorrupted ==
    []LastFileKeptCommitted /\ [][CallKeepsCommitted]_vars

\* C12 witness: a file that created a variant and ended in an error came
\* after files that had committed variants and location-index entries
FailedFileAfterCommittedOnes ==
    /\ strError # "" /\ fileLast.valid
    /\ Len(preLast.files) >= 1
    /\ Len(m_vecFileInfo) = Len(preLast.files) + 1
    /\ \E a \in 1..Len(preLast.axes) :
        /\ Len(preLast.axes[a].val.m_vecSubAxis) >= 1
        /\ Len(m_vecAxisInfo[a].val.m_vecSubAxis) >
                Len(preLast.axes[a].val.m_vecSubAxis)
    /\ \E vi \in 1..Len(preLast.variables) :
        preLast.variables[vi].val.m_mapSubAxisToFileIdMaps # EmptyMap

\* the last call returned an error from the processing of a file it opened
FailedInFile == strError # "" /\ ~thrown /\ fileLast.valid

\* the variant ids the last file reached holds for the dimensions g
LastTuple(g) == [d \in 1..Len(g) |-> LastFileInfo.m_mapAxisSubAxis[g[d]]]

\* variable v of the last file reached is rejected against the entry its
\* name had before the file
FailsCheck(v) ==
    /\ RepeatSighting(v)
    /\ FromNcVar(DoiOf(PreVar(fileLast.vars[v].name)), fileLast.vars[v], TRUE).err # ""

\* variable v of the last file reached is in the location index at the
\* place that file gives it, under this file's id if the variable is new
Located(v) ==
    /\ Find(m_vecVariableInfo, fileLast.vars[v].name) # 0
    /\ fileLast.vars[v].dims \in
            DOMAIN VarOf(fileLast.vars[v].name).m_mapSubAxisToFileIdMaps
    /\ LastTuple(fileLast.vars[v].dims) \in
            DOMAIN VarOf(fileLast.vars[v].name).m_mapSubAxisToFileIdMaps[fileLast.vars[v].dims]
    /\ Find(preLast.variables, fileLast.vars[v].name) = 0 =>
            VarOf(fileLast.vars[v].name).m_mapSubAxisToFileIdMaps
                [fileLast.vars[v].dims][LastTuple(fileLast.vars[v].dims)]
            = m_vecFileInfo[Len(m_vecFileInfo)].key

\* a file whose processing returned an error has its FileInfo under the
\* next id; the axis/subaxis pairs of its leading dimensions are recorded,
\* each naming a variant the axis holds; and if all its dimensions are
\* recorded, some variable of it is rejected and every variable before the
\* first such one is in the location index
FailedFileKeepsItsCommits ==
    FailedInFile =>
    /\ Len(m_vecFileInfo) = Len(preLast.files) + 1
    /\ m_vecFileInfo[Len(m_vecFileInfo)].key = to_string(Len(preLast.files))
    /\ LastFileInfo.m_strFilename = BaseDir \o fileLast.name
    /\ \E n \in 0..Len(fileLast.dims) :
        /\ DOMAIN LastFileInfo.m_mapAxisSubAxis =
                { fileLast.dims[d].name : d \in 1..n }
        /\ \A d \in 1..n :
            /\ fileLast.dims[d].name \in AxisNames
            /\ Find(AxisOf(fileLast.dims[d].name).m_vecSubAxis,
                    LastFileInfo.m_mapAxisSubAxis[fileLast.dims[d].name]) # 0
        /\ n = Len(fileLast.dims) =>
            \E f \in 1..Len(fileLast.vars) :
                /\ FailsCheck(f)
                /\ \A v \in 1..(f - 1) :
                    /\ ~FailsCheck(v)
                    /\ fileLast.vars[v].name \notin AxisNames => Located(v)

\* a call after a failed one gives its first file the id after the failed
\* file's and keeps what the failed file committed
NextIdAfterFailedFile ==
    (strError # "" /\ Len(m_vecFileInfo') > Len(m_vecFileInfo))
    => /\ m_vecFileInfo'[Len(m_vecFileInfo) + 1].key = to_string(Len(m_vecFileInfo))
       /\ Extends(Catalog, Catalog')

\* C13: when an error is returned from the axis or variable processing of a
\* file, what the file committed before stays: its FileInfo under the id
\* allocated for it, the axis/subaxis pairs recorded before the error with
\* the axes and variants they name, and the location-index entries of the
\* variables before the failing one; a later call allocates the id after
\* the failed file's.
NoRollbackWithinFile ==
    []FailedFileKeepsItsCommits /\ [][NextIdAfterFailedFile]_vars

\* C13 witness: a file created a variant and a variable entry and then
\* failed on a later variable; a later call ingested a file under the next
\* id, and what the failed file committed is still there
FailedFileCommitsOutlive ==
    \E i \in 1..(Len(m_vecFileInfo) - 1) :
        /\ openedErr[i] = "ERROR: Variable has inconsistent type across files"
        /\ m_vecFileInfo[i + 1].key = to_string(i)
        /\ m_vecFileInfo[i].val.m_mapAxisSubAxis # EmptyMap
        /\ \E vi \in 1..Len(m_vecVariableInfo) :
           \E g \in DOMAIN m_vecVariableInfo[vi].val.m_mapSubAxisToFileIdMaps :
           \E t \in DOMAIN m_vecVariableInfo[vi].val.m_mapSubAxisToFileIdMaps[g] :
                /\ m_vecVariableInfo[vi].val.m_mapSubAxisToFileIdMaps[g][t] =
                        m_vecFileInfo[i].key
                /\ t # <<"0">>

----------------------------------------------------------------------------
(* Collection attributes *)

\* the global attributes of a file that the catalog sorts as key / as other
KeyAttsOf(ncFile) ==
    { a \in 1..Len(ncFile.atts) :
        ncFile.atts[a][1] # "units" /\ ToLower(ncFile.atts[a][1]) \in GlobalKeyNames }

OtherAttsOf(ncFile) ==
    { a \in 1..Len(ncFile.atts) :
        ncFile.atts[a][1] # "units" /\ ToLower(ncFile.atts[a][1]) \notin GlobalKeyNames }

\* the files of a list with their global attributes taken away
WithoutAtts(files) == [k \in 1..Len(files) |-> [files[k] EXCEPT !.atts = <<>>]]

\* the collection attributes are those of the file with id "0"
CollectionAttributesOfFirstFile ==
    IF Len(m_vecFileInfo) = 0
    THEN m_datainfo = DataObjectInfo("")
    ELSE /\ DOMAIN m_datainfo.keyatts =
                { opened[1].atts[a][1] : a \in KeyAttsOf(opened[1]) }
         /\ DOMAIN m_datainfo.otheratts =
                { opened[1].atts[a][1] : a \in OtherAttsOf(opened[1]) }
         /\ \A a \in KeyAttsOf(opened[1]) :
                m_datainfo.keyatts[opened[1].atts[a][1]] = opened[1].atts[a][2]
         /\ \A a \in OtherAttsOf(opened[1]) :
                m_datainfo.otheratts[opened[1].atts[a][1]] = opened[1].atts[a][2]

\* a call on a catalog that holds a file leaves the collection attributes
\* alone, and any call returns what it returns for the same files without
\* global attributes
CollectionAttributesKept ==
    /\ Len(m_vecFileInfo) >= 1 => m_datainfo' = m_datainfo
    /\ strError' = IndexVariableDataFrom(Entering, Catalog, BaseDir,
                                         WithoutAtts(vecFilenames'), 1).st.err

\* C14: the collection attributes are captured once, from the first file
\* that opens while the catalog holds no file; after that no ingest of any
\* file changes them, and no ingest fails because of the global attributes
\* of its files.
CollectionAttributesCapturedOnce ==
    []CollectionAttributesOfFirstFile /\ [][CollectionAttributesKept]_vars

\* C14 witness: a later file whose global attributes differ in value and in
\* names from the first file's was ingested without error
DifferentGlobalAttributesIngested ==
    /\ strError = ""
    /\ \E i \in 2..Len(m_vecFileInfo) :
        /\ \E a \in OtherAttsOf(opened[i]) :
            /\ opened[i].atts[a][1] \in DOMAIN m_datainfo.otheratts
            /\ m_datainfo.otheratts[opened[i].atts[a][1]] # opened[i].atts[a][2]
    /\ \E j \in 2..Len(m_vecFileInfo) :
        /\ \E a \in KeyAttsOf(opened[j]) :
            opened[j].atts[a][1] \notin DOMAIN m_datainfo.keyatts

\* C15 as stated: an 'other' global attribute of an ingested file is absent
\* from its FileInfo if and only if the collection attributes have the same
\* key among their 'other' attributes with an identical value.
PrunedIffIdentical ==
    \A i \in 1..Len(m_vecFileInfo) : \A a \in OtherAttsOf(opened[i]) :
        opened[i].atts[a][1] \notin DOMAIN m_vecFileInfo[i].val.otheratts
        <=> /\ opened[i].atts[a][1] \in DOMAIN m_datainfo.otheratts
            /\ m_datainfo.otheratts[opened[i].atts[a][1]] = opened[i].atts[a][2]

----------------------------------------------------------------------------
(* Axes without coordinate variable *)

\* the file with id i-1 defines dimension A without coordinate variable and
\* got a variant id for it
BareContribution(i, A) ==
    /\ A \in DOMAIN m_vecFileInfo[i].val.m_mapAxisSubAxis
    /\ get_var(opened[i], A) = 0
    /\ \E d \in 1..Len(opened[i].dims) : opened[i].dims[d].name = A

\* the size the file with id i-1 gives dimension A
DimSize(i, A) ==
    opened[i].dims[CHOOSE d \in 1..Len(opened[i].dims) :
                        opened[i].dims[d].name = A].size

\* C16 as stated: two files that define the same axis without coordinate
\* variable and with different sizes record different variant ids for it,
\* each id naming a variant that carries that file's size.
BareAxesDistinguishedBySize ==
    \A i, j \in 1..Len(m_vecFileInfo) : \A A \in AxisNames :
        ( /\ BareContribution(i, A) /\ BareContribution(j, A)
          /\ DimSize(i, A) # DimSize(j, A) )
        => /\ VariantOf(i, A) # VariantOf(j, A)
           /\ AxisOf(A).m_vecSubAxis[Find(AxisOf(A).m_vecSubAxis,
                                          VariantOf(j, A))].val.size = DimSize(j, A)

----------------------------------------------------------------------------
(* The JSON document *)

\* the catalog FromJSONFile built
Loaded == loaded[1]

\* the document at the path is the one ToJSONFile writes for the catalog,
\* and FromJSONFile has read it into a new catalog
RoundTripDone == json.t # "none" /\ json = ToJSON(Catalog) /\ loaded # <<>>

\* the set of (variant id, value array) pairs of an axis entry
VariantPairs(axisinfo) ==
    { <<axisinfo.m_vecSubAxis[k].key, ValuesOf(axisinfo.m_vecSubAxis[k].val)>> :
        k \in 1..Len(axisinfo.m_vecSubAxis) }

\* the names under which a vector holds entries, and the entry under a name
KeysIn(vec) == { vec[i].key : i \in 1..Len(vec) }

EntryIn(vec, key) == vec[Find(vec, key)].val

\* C17 as stated: for every catalog reachable by ingestion, loading the JSON
\* that ToJSONFile writes for it into a fresh catalog yields, for every axis,
\* the same set of (variant id, value array) pairs and, for every variable,
\* the same location index (the same axis groups, each with the same entries
\* from variant tuple to file id), variables with several axis groups included.
JSONRoundTripPreserves ==
    RoundTripDone =>
        /\ ~Loaded.thrown
        /\ KeysIn(Loaded.axes) = KeysIn(m_vecAxisInfo)
        /\ \A A \in KeysIn(m_vecAxisInfo) :
                VariantPairs(EntryIn(Loaded.axes, A))
                    = VariantPairs(EntryIn(m_vecAxisInfo, A))
        /\ KeysIn(Loaded.variables) = KeysIn(m_vecVariableInfo)
        /\ \A V \in KeysIn(m_vecVariableInfo) :
                EntryIn(Loaded.variables, V).m_mapSubAxisToFileIdMaps
                    = EntryIn(m_vecVariableInfo, V).m_mapSubAxisToFileIdMaps

\* C17 failing input: a variable with two axis groups, ingested without error
TwoGroupsRoundTrip ==
    /\ RoundTripDone
    /\ strError = ""
    /\ \E V \in KeysIn(m_vecVariableInfo) :
            Cardinality(DOMAIN EntryIn(m_vecVariableInfo, V).m_mapSubAxisToFileIdMaps) > 1

\* ToJSONFile has written the document for the catalog
Written == json.t # "none" /\ json = ToJSON(Catalog)

\* the object of a variable or of an axis in the document
JVariable(V) == JRef(JRef(json, "variables"), V)

JAxis(A) == JRef(JRef(json, "axes"), A)

\* the strings of a JSON array of strings; none for null
StringsOf(j) == IF j.t = "array" THEN Unwrap(j.a) ELSE <<>>

\* the rows of a "subaxismap" member, as a set
RowsOf(j) == IF j.t = "array" THEN { StringsOf(j.a[i]) : i \in 1..Len(j.a) } ELSE {}

\* jg holds the axis names of group g and the rows of its location index
HoldsGroup(jg, g, map) ==
    /\ JFind(jg, "axisids") /\ StringsOf(jg.o["axisids"]) = g
    /\ JFind(jg, "subaxismap")
    /\ RowsOf(jg.o["subaxismap"]) = { ids \o <<map[ids]>> : ids \in DOMAIN map }

GroupsOf(V) == EntryIn(m_vecVariableInfo, V).m_mapSubAxisToFileIdMaps

\* C18 as stated: in the document ToJSONFile writes, a variable whose location
\* index has k > 1 axis groups has a member axisgroups with k entries, under
\* the group indices 0..k-1, each holding one group's own axisids and its own
\* subaxismap rows and every group held by one of them; a variable with one
\* group has axisids and subaxismap on the variable object and no axisgroups.
AxisGroupsOnePerGroup ==
    Written =>
        \A V \in KeysIn(m_vecVariableInfo) :
            /\ Cardinality(DOMAIN GroupsOf(V)) = 1 =>
                    /\ ~JFind(JVariable(V), "axisgroups")
                    /\ \A g \in DOMAIN GroupsOf(V) :
                            HoldsGroup(JVariable(V), g, GroupsOf(V)[g])
            /\ Cardinality(DOMAIN GroupsOf(V)) > 1 =>
                    /\ JFind(JVariable(V), "axisgroups")
                    /\ JKeys(JVariable(V).o["axisgroups"])
                            = { to_string(n) : n \in 0..(Cardinality(DOMAIN GroupsOf(V)) - 1) }
                    /\ \A g \in DOMAIN GroupsOf(V) :
                            \E n \in JKeys(JVariable(V).o["axisgroups"]) :
                                HoldsGroup(JVariable(V).o["axisgroups"].o[n],
                                           g, GroupsOf(V)[g])

\* C18 failing input: the document of a variable with two axis groups
TwoGroupsWritten ==
    /\ Written
    /\ strError = ""
    /\ \E V \in KeysIn(m_vecVariableInfo) : Cardinality(DOMAIN GroupsOf(V)) > 1

\* jsub holds the size of the variant sub and, if it has a type, its values
HoldsVariant(jsub, sub) ==
    /\ JFind(jsub, "size") /\ jsub.o["size"] = JInteger(sub.size)
    /\ sub.nctype # "NoType" =>
            /\ JFind(jsub, "values")
            /\ jsub.o["values"].t = "array"
            /\ Unwrap(jsub.o["values"].a) = ValuesOf(sub)

\* C19: in the document ToJSONFile writes, an axis with exactly one variant
\* has that variant's size and values on the axis object and no subaxes
\* member; an axis with two or more variants has a subaxes object with
\* exactly one member per variant, keyed by the variant id and holding that
\* variant, and no values member on the axis object.
AxisShapeFollowsVariantCount ==
    Written =>
        \A A \in KeysIn(m_vecAxisInfo) :
            /\ Len(EntryIn(m_vecAxisInfo, A).m_vecSubAxis) = 1 =>
                    /\ ~JFind(JAxis(A), "subaxes")
                    /\ HoldsVariant(JAxis(A), EntryIn(m_vecAxisInfo, A).m_vecSubAxis[1].val)
            /\ Len(EntryIn(m_vecAxisInfo, A).m_vecSubAxis) >= 2 =>
                    /\ ~JFind(JAxis(A), "values")
                    /\ JFind(JAxis(A), "subaxes")
                    /\ JKeys(JAxis(A).o["subaxes"])
                            = KeysIn(EntryIn(m_vecAxisInfo, A).m_vecSubAxis)
                    /\ Cardinality(JKeys(JAxis(A).o["subaxes"]))
                            = Len(EntryIn(m_vecAxisInfo, A).m_vecSubAxis)
                    /\ \A id \in KeysIn(EntryIn(m_vecAxisInfo, A).m_vecSubAxis) :
                            HoldsVariant(JAxis(A).o["subaxes"].o[id],
                                EntryIn(EntryIn(m_vecAxisInfo, A).m_vecSubAxis, id))

\* C19 witness: the document of a catalog in which an axis with coordinate
\* values has two variants, written under subaxes "0" and "1"
TwoVariantsWritten ==
    /\ Written
    /\ \E A \in KeysIn(m_vecAxisInfo) :
            /\ Len(EntryIn(m_vecAxisInfo, A).m_vecSubAxis) = 2
            /\ EntryIn(m_vecAxisInfo, A).nctype # "NoType"
            /\ JKeys(JRef(JAxis(A), "subaxes")) = {"0", "1"}

\* the axes of the document with subaxes beside values or size, and its
\* variables with axisgroups beside axisids or subaxismap
ConflictingAxes ==
    { A \in JKeys(JRef(json, "axes")) :
        /\ JFind(JAxis(A), "subaxes")
        /\ JFind(JAxis(A), "values") \/ JFind(JAxis(A), "size") }

ConflictingVariables ==
    { V \in JKeys(JRef(json, "variables")) :
        /\ JFind(JVariable(V), "axisgroups")
        /\ JFind(JVariable(V), "axisids") \/ JFind(JVariable(V), "subaxismap") }

\* the messages that name the axis A, the variable V
AxisConflictMessages(A) ==
    { "EXCEPTION: axis \"" \o A \o "\" specifies both \"" \o k \o "\" and \"subaxes\"" :
        k \in {"values", "size"} }

VariableConflictMessages(V) ==
    { "EXCEPTION: variable \"" \o V \o "\" specifies both \"axisgroups\" and \"" \o k \o "\"" :
        k \in {"axisids", "subaxismap"} }

\* C20: FromJSONFile on a document in which an axis has subaxes together with
\* values or size, or a variable has axisgroups together with axisids or
\* subaxismap, ends in an exception whose message names such an axis or
\* variable; the load of such a document is never completed.
ConflictingKeysRejected ==
    (loaded # <<>> /\ ConflictingAxes \cup ConflictingVariables # {}) =>
        /\ Loaded.thrown
        /\ \/ \E A \in ConflictingAxes : Loaded.err \in AxisConflictMessages(A)
           \/ \E V \in ConflictingVariables : Loaded.err \in VariableConflictMessages(V)

\* C20 witness: a document whose only conflict is in a variable was read and
\* rejected after its axes had been loaded
ConflictingVariableSeen ==
    /\ loaded # <<>>
    /\ ConflictingAxes = {}
    /\ ConflictingVariables # {}
    /\ Loaded.thrown
    /\ Loaded.axes # <<>>

\* the top-level section of the document under the name k, and its members
Section(k) == JRef(json, k)

Members(j) == { j.o[x] : x \in JKeys(j) }

\* an axis or variable object without datatype or with one that is no string
BadDatatype(j) == ~JFind(j, "datatype") \/ j.o["datatype"].t # "string"

\* the objects of the document that hold an axis group: the variable itself,
\* or the members of its axisgroups
GroupObjects ==
    UNION { IF JFind(jvv, "axisgroups") THEN Members(jvv.o["axisgroups"]) ELSE {jvv} :
            jvv \in Members(Section("variables")) }

\* j is an array of arrays of strings
ArrayOfArraysOfStrings(j) ==
    /\ j.t = "array"
    /\ \A i \in 1..Len(j.a) : j.a[i].t = "array" /\ AllStrings(j.a[i].a)

BadGroup(j) ==
    \/ ~JFind(j, "axisids")
    \/ ~JFind(j, "subaxismap")
    \/ ~ArrayOfArraysOfStrings(j.o["subaxismap"])

\* the objects of the document that hold a variant: the members of subaxes,
\* and an axis object that has a size
SubAxisObjects ==
    UNION { IF JFind(jaa, "subaxes") THEN Members(jaa.o["subaxes"])
            ELSE IF JFind(jaa, "size") THEN {jaa} ELSE {} :
            jaa \in Members(Section("axes")) }

BadSubAxis(j) ==
    \/ ~JFind(j, "datatype")
    \/ ~JFind(j, "size")
    \/ j.o["size"].t # "integer"

\* the document lacks a required member or holds a value of the wrong type
\* in its place
MissingOrMistyped ==
    \/ \E k \in {"dataset", "file", "axes", "variables"} : ~JFind(json, k)
    \/ \E jff \in Members(Section("file")) : ~JFind(jff, "name")
    \/ \E jaa \in Members(Section("axes")) : BadDatatype(jaa)
    \/ \E jvv \in Members(Section("variables")) : BadDatatype(jvv)
    \/ \E jg \in GroupObjects : BadGroup(jg)
    \/ \E js \in SubAxisObjects : BadSubAxis(js)

----------------------------------------------------------------------------
(* Writers of the output files *)

\* the ranks that hold the XML path, the JSON path open for writing
WritingXML == { r \in DOMAIN proc : proc[r] = "SaveFile" }
WritingJSON == { r \in DOMAIN proc : proc[r] = "ofJSON" }

\* C22: among the processes running main on one output path only rank 0
\* ever holds the XML or the JSON file open for writing, a call of ToXMLFile
\* or ToJSONFile on another rank writing nothing, so that no two processes
\* write the same path at once
SingleWriterRankZero ==
    /\ WritingXML \subseteq {0}
    /\ WritingJSON \subseteq {0}
    /\ Cardinality(WritingXML) <= 1
    /\ Cardinality(WritingJSON) <= 1

----------------------------------------------------------------------------
(* The contents of a variant *)

\* the variant recorded for axis A by the file with id i-1
SubAxisOf(i, A) ==
    AxisOf(A).m_vecSubAxis[Find(AxisOf(A).m_vecSubAxis, VariantOf(i, A))].val

\* the ingestion of the file with id i-1 returned an error string
ReturnedError(i) ==
    openedErr[i] # "" /\ ~(thrown /\ i = Len(m_vecFileInfo))

\* the ingestion of the file with id i-1 came to its dimension d: the
\* dimensions before it are recorded and no error string was returned
CameTo(i, d) ==
    /\ ~ReturnedError(i)
    /\ \A e \in 1..(d - 1) :
           opened[i].dims[e].name \in DOMAIN m_vecFileInfo[i].val.m_mapAxisSubAxis

\* the variant sub holds n values of the given type and nothing else
HoldsTyped(sub, type, n) ==
    /\ sub.nctype = type
    /\ Len(sub.ints) = (IF type = "Int" THEN n ELSE 0)
    /\ Len(sub.floats) = (IF type = "Float" THEN n ELSE 0)
    /\ Len(sub.doubles) = (IF type = "Double" THEN n ELSE 0)

\* C23: every dimension of an ingested file whose coordinate variable is
\* of type Int, Float or Double is recorded with a variant of that type
\* holding as many values of that type as the dimension is long and no
\* values of the other two types; a dimension without coordinate variable
\* is recorded with a variant without type and without values
TypedVariantContents ==
    \A i \in 1..Len(m_vecFileInfo) : \A d \in 1..Len(opened[i].dims) :
        LET A == opened[i].dims[d].name IN
        CameTo(i, d) =>
            IF get_var(opened[i], A) = 0
            THEN /\ A \in DOMAIN m_vecFileInfo[i].val.m_mapAxisSubAxis
                 /\ HoldsTyped(SubAxisOf(i, A), "NoType", 0)
            ELSE CoordVar(i, A).type \in {"Int", "Float", "Double"}
                 => /\ A \in DOMAIN m_vecFileInfo[i].val.m_mapAxisSubAxis
                    /\ HoldsTyped(SubAxisOf(i, A), CoordVar(i, A).type,
                                  opened[i].dims[d].size)

----------------------------------------------------------------------------
(* The two attribute maps *)

\* the collection, the files, the axes, their variants and the variables
\* of a catalog, as DataObjectInfo
EntitiesOf(c) ==
    {DoiOf(c.datainfo)}
    \cup { DoiOf(c.files[i].val) : i \in 1..Len(c.files) }
    \cup { DoiOf(c.axes[a].val) : a \in 1..Len(c.axes) }
    \cup UNION { { DoiOf(c.axes[a].val.m_vecSubAxis[k].val) :
                     k \in 1..Len(c.axes[a].val.m_vecSubAxis) } :
                 a \in 1..Len(c.axes) }
    \cup { DoiOf(c.variables[v].val) : v \in 1..Len(c.variables) }

----------------------------------------------------------------------------
(* Type and units of a loaded variable *)

\* the object of the document from which the v-th loaded variable was read
JLoadedVariable(v) == Section("variables").o[Loaded.variables[v].key]

\* the type of every loaded variable is the one its datatype member names
LoadedDatatypeRestored ==
    \A v \in 1..Len(Loaded.variables) :
        Loaded.variables[v].val.nctype
            = StringToNcType(JLoadedVariable(v).o["datatype"].s)

\* C25: after FromJSONFile has loaded a document, the type of each variable
\* is the one its datatype member names and its units are the string of its
\* units member
VariableTypeAndUnitsRestored ==
    (loaded # <<>> /\ ~Loaded.thrown) =>
        /\ LoadedDatatypeRestored
        /\ \A v \in 1..Len(Loaded.variables) :
               ( /\ JFind(JLoadedVariable(v), "units")
                 /\ JLoadedVariable(v).o["units"].t = "string" )
               => Loaded.variables[v].val.units = JLoadedVariable(v).o["units"].s

----------------------------------------------------------------------------
(* Looking a variable up *)

\* the catalog proper
CatalogVars == <<m_datainfo, m_vecFileInfo, m_vecAxisInfo, m_vecVariableInfo>>

\* what the last call of GetVariableInfo was asked and what it returned
Asked == lookup[1].name
Returned == lookup[1].ret

\* C26: a call of GetVariableInfo(name) returns the entry of the variables
\* whose name is the argument if there is one and nothing otherwise, and
\* leaves files, axes, variables and collection attributes as they were
LookupIsPureRead ==
    [][ lookup' # lookup =>
            /\ UNCHANGED CatalogVars
            /\ IF \E v \in 1..Len(m_vecVariableInfo) :
                      m_vecVariableInfo[v].val.name = lookup'[1].name
               THEN /\ lookup'[1].ret \in 1..Len(m_vecVariableInfo)
                    /\ m_vecVariableInfo[lookup'[1].ret].val.name = lookup'[1].name
               ELSE lookup'[1].ret = 0 ]_vars

\* C26 witness: in a catalog holding T and Q a lookup of Q returned its
\* entry, the second of the variables
SecondVariableLookedUp ==
    /\ lookup # <<>> /\ Asked = "Q" /\ Returned = 2
    /\ Len(m_vecVariableInfo) = 2
    /\ m_vecVariableInfo[2].val.name = "Q"

----------------------------------------------------------------------------
(* Several retained variants equal to one array *)

\* the variants of axis A retained before the last file reached whose type
\* is that of the file's coordinate variable for its dimension d and whose
\* array is equal to the file's under the rule
MatchesBefore(d) ==
    { k \in 1..Len(PreAxis(fileLast.dims[d].name).m_vecSubAxis) :
        LET sub == PreAxis(fileLast.dims[d].name).m_vecSubAxis[k].val IN
        /\ sub.nctype = DimVar(d).type
        /\ EqualUnderRule(ValuesOf(sub), DimVar(d).values) }

\* the last file reached recorded its dimension d, an axis known before it,
\* for which it supplies a coordinate array equal to several retained variants
SeveralMatches(d) ==
    /\ KnownAxis(d)
    /\ Len(m_vecFileInfo) > Len(preLast.files)
    /\ fileLast.dims[d].name \in DOMAIN LastFileInfo.m_mapAxisSubAxis
    /\ get_var(fileLast, fileLast.dims[d].name) # 0
    /\ Cardinality(MatchesBefore(d)) >= 2

\* C27: a file whose coordinate array is equal under the rule to more than
\* one retained variant of the axis records the id of the earliest
\* retained of them, and the axis gets no new variant
FirstMatchWins ==
    \A d \in 1..Len(fileLast.dims) :
        SeveralMatches(d) =>
            LET A == fileLast.dims[d].name IN
            /\ \E k \in MatchesBefore(d) :
                   /\ \A m \in MatchesBefore(d) : k <= m
                   /\ LastFileInfo.m_mapAxisSubAxis[A]
                          = PreAxis(A).m_vecSubAxis[k].key
            /\ AxisOf(A).m_vecSubAxis = PreAxis(A).m_vecSubAxis

\* C27 witness: lev = [1] arrives after [0] and [2] were retained as
\* variants 0 and 1, and is recorded under variant 0
MiddleArrayAfterBothEnds ==
    /\ \E d \in 1..Len(fileLast.dims) :
           SeveralMatches(d) /\ MatchesBefore(d) = {1, 2}
    /\ LastFileInfo.m_mapAxisSubAxis["lev"] = "0"
    /\ Len(AxisOf("lev").m_vecSubAxis) = 2
    /\ strError = ""

----------------------------------------------------------------------------
(* The axis map of a file *)

\* the axis map of the file with id i-1
AxisMapOf(i) == m_vecFileInfo[i].val.m_mapAxisSubAxis

\* every pair recorded on a file names a known axis and a variant it holds
AxisMapRefersToVariants ==
    \A i \in 1..Len(m_vecFileInfo) : \A A \in DOMAIN AxisMapOf(i) :
        /\ A \in AxisNames
        /\ Find(AxisOf(A).m_vecSubAxis, AxisMapOf(i)[A]) # 0

\* the variant recorded by the file with id i-1 for A has the type of the
\* file's coordinate variable and an array equal to the file's under the rule
RecordedVariantEqualsSupplied(i, A) ==
    get_var(opened[i], A) # 0 =>
        /\ SubAxisOf(i, A).nctype = CoordVar(i, A).type
        /\ EqualUnderRule(ValuesOf(SubAxisOf(i, A)), CoordVar(i, A).values)

\* C28: the axis map of a file ingested without error has the names of the
\* file's dimensions as its keys, each mapped to the id of a variant of that
\* axis which is equal under the rule to the coordinate array the file
\* supplied; and in every state, after errors too, every pair recorded on a
\* file names a known axis and a variant that axis holds
AxisMapCompleteAndReferring ==
    /\ AxisMapRefersToVariants
    /\ \A i \in 1..Len(m_vecFileInfo) :
           openedErr[i] = "" =>
               /\ DOMAIN AxisMapOf(i)
                      = { opened[i].dims[d].name : d \in 1..Len(opened[i].dims) }
               /\ \A A \in DOMAIN AxisMapOf(i) : RecordedVariantEqualsSupplied(i, A)

----------------------------------------------------------------------------
(* The entries of the location index *)

\* the location index of the v-th variable
LocationsOf(v) == m_vecVariableInfo[v].val.m_mapSubAxisToFileIdMaps

\* the entry of variable v under the axis names and the tuple ids is well
\* formed: as many ids as names, its file id that of a file i of the
\* catalog, each id a variant of its axis and the one file i recorded for it
EntryWellFormed(v, names, ids) ==
    /\ Len(ids) = Len(names)
    /\ \E i \in 1..Len(m_vecFileInfo) :
           /\ m_vecFileInfo[i].key = LocationsOf(v)[names][ids]
           /\ \A n \in 1..Len(names) :
                  /\ names[n] \in AxisNames
                  /\ Find(AxisOf(names[n]).m_vecSubAxis, ids[n]) # 0
                  /\ names[n] \in DOMAIN AxisMapOf(i)
                  /\ AxisMapOf(i)[names[n]] = ids[n]

\* variable w of the file with id i-1 has no dimensions and was indexed
\* (it does not bear the name of an axis, the file was ingested without error)
IndexedScalar(i, w) ==
    /\ openedErr[i] = ""
    /\ opened[i].vars[w].dims = <<>>
    /\ opened[i].vars[w].name \notin AxisNames

\* C29: every entry of the location index of a variable under a list of n
\* axis names has a tuple of n variant ids, each an id of a variant of its
\* axis and the id recorded for that axis by the file the entry points to,
\* a file of the catalog; a variable without dimensions is indexed under
\* the empty list with the empty tuple
LocationIndexWellFormed ==
    /\ \A v \in 1..Len(m_vecVariableInfo) :
           \A names \in DOMAIN LocationsOf(v) :
               \A ids \in DOMAIN LocationsOf(v)[names] :
                   EntryWellFormed(v, names, ids)
    /\ \A i \in 1..Len(m_vecFileInfo) : \A w \in 1..Len(opened[i].vars) :
           IndexedScalar(i, w) =>
               /\ <<>> \in DOMAIN VarOf(opened[i].vars[w].name).m_mapSubAxisToFileIdMaps
               /\ DOMAIN VarOf(opened[i].vars[w].name).m_mapSubAxisToFileIdMaps[<<>>]
                      = {<<>>}

\* C29 witness: T is indexed under (lev) by one file and under the empty
\* list with the empty tuple by another
ScalarAndAxisListIndexed ==
    /\ \E v \in 1..Len(m_vecVariableInfo) :
           /\ <<>> \in DOMAIN LocationsOf(v)
           /\ <<>> \in DOMAIN LocationsOf(v)[<<>>]
           /\ <<"lev">> \in DOMAIN LocationsOf(v)
           /\ LocationsOf(v)[<<>>][<<>>] # LocationsOf(v)[<<"lev">>][<<"0">>]
    /\ strError = ""

----------------------------------------------------------------------------
(* The aborts of the loop over the variables *)

\* some variable has an entry of its location index pointing to the file
\* with id i-1: a variable of that file was indexed
VariableIndexedFrom(i) ==
    \E v \in 1..Len(m_vecVariableInfo) : \E names \in DOMAIN LocationsOf(v) :
        \E ids \in DOMAIN LocationsOf(v)[names] :
            LocationsOf(v)[names][ids] = m_vecFileInfo[i].key

\* C30: ingestion never ends in the exception "Logic error": when a variable
\* of a file is indexed every dimension of the file has its entry in the
\* file's axis map, the dimensions having been indexed without error before
\* the variables, and a new group of axis names is inserted whenever the
\* find of the names fails
LogicErrorUnreachable ==
    /\ strError # "EXCEPTION: Logic error"
    /\ \A i \in 1..Len(openedErr) : openedErr[i] # "EXCEPTION: Logic error"
    /\ \A i \in 1..Len(m_vecFileInfo) :
           VariableIndexedFrom(i) =>
               { opened[i].dims[d].name : d \in 1..Len(opened[i].dims) }
                   \subseteq DOMAIN AxisMapOf(i)

\* C30 witness: T, known under (lev), was found in a later file with the
\* dimensions (x, lev), and the new group was inserted for it
SecondGroupInserted ==
    /\ strError = "" /\ ~thrown
    /\ \E v \in 1..Len(m_vecVariableInfo) :
           /\ DOMAIN LocationsOf(v) = {<<"lev">>, <<"x", "lev">>}
           /\ LocationsOf(v)[<<"x", "lev">>] # EmptyMap
           /\ \E i \in 2..Len(m_vecFileInfo) :
                  /\ DOMAIN AxisMapOf(i) = {"x", "lev"}
                  /\ VariableIndexedFrom(i)

----------------------------------------------------------------------------
(* The variants of a loaded axis *)

\* the axis objects of the document that were loaded into an axis
LoadedAxisNames == KeysIn(Loaded.axes) \cap JKeys(Section("axes"))

\* the variant ids of the loaded axis A, in the order of loading
LoadedVariantIds(A) ==
    [k \in 1..Len(EntryIn(Loaded.axes, A).m_vecSubAxis) |->
        EntryIn(Loaded.axes, A).m_vecSubAxis[k].key]

\* C31: an axis object without subaxes that carries values or size is loaded
\* as an axis with the one variant "0"; an axis object with subaxes is loaded
\* with one variant per member of subaxes, under the member's name
InlineAxisIsVariantZero ==
    (loaded # <<>> /\ ~Loaded.thrown /\ json.t = "object") =>
        \A A \in LoadedAxisNames :
            IF JFind(JAxis(A), "subaxes")
            THEN LoadedVariantIds(A) = SortKeys(JKeys(JAxis(A).o["subaxes"]))
            ELSE (JFind(JAxis(A), "values") \/ JFind(JAxis(A), "size"))
                 => LoadedVariantIds(A) = <<"0">>

\* the same for the axis objects that carry size
InlineAxisWithSizeIsVariantZero ==
    (loaded # <<>> /\ ~Loaded.thrown /\ json.t = "object") =>
        \A A \in LoadedAxisNames :
            IF JFind(JAxis(A), "subaxes")
            THEN LoadedVariantIds(A) = SortKeys(JKeys(JAxis(A).o["subaxes"]))
            ELSE JFind(JAxis(A), "size") => LoadedVariantIds(A) = <<"0">>

----------------------------------------------------------------------------
(* Names of axes and names of variables *)

\* C32: no name is both the name of an axis and the name of a variable of
\* the catalog, whatever the order in which files using the name for a
\* dimension and for a plain variable are ingested
AxesAndVariablesShareNoName ==
    AxisNames \cap KeysIn(m_vecVariableInfo) = {}

\* a name shared by an axis and a variable was the name of a variable of
\* some file before any file had a dimension of that name
SharedNamesCameVariableFirst ==
    \A N \in AxisNames \cap KeysIn(m_vecVariableInfo) :
        \E i \in 1..Len(opened) :
            /\ get_var(opened[i], N) # 0
            /\ \A k \in 1..i : \A d \in 1..Len(opened[k].dims) :
                   opened[k].dims[d].name # N

----------------------------------------------------------------------------
(* Retained variants compared with each other *)

\* C33: no two variants retained under different ids of one axis are equal
\* under the comparison the scan for an existing variant uses
RetainedVariantsPairwiseDistinct ==
    \A a \in 1..Len(m_vecAxisInfo) :
        \A k, m \in 1..Len(m_vecAxisInfo[a].val.m_vecSubAxis) :
            k # m =>
                /\ m_vecAxisInfo[a].val.m_vecSubAxis[k].key
                       # m_vecAxisInfo[a].val.m_vecSubAxis[m].key
                /\ ~SubAxisEq(m_vecAxisInfo[a].val.m_vecSubAxis[k].val,
                              m_vecAxisInfo[a].val.m_vecSubAxis[m].val)

\* C33 witness: three files were ingested without error into an axis that
\* retained two variants, one of the files sharing a variant
TwoVariantsFromThreeFiles ==
    /\ strError = ""
    /\ Len(m_vecFileInfo) = 3
    /\ \A i \in 1..3 : "lev" \in DOMAIN AxisMapOf(i)
    /\ Len(AxisOf("lev").m_vecSubAxis) = 2
    /\ { AxisMapOf(i)["lev"] : i \in 1..3 } = {"0", "1"}

----------------------------------------------------------------------------
(* One call and several calls *)

\* no call so far returned an error for a file it had opened, and the last
\* call returned none
NoErrorSoFar ==
    /\ strError = "" /\ ~thrown
    /\ \A i \in 1..Len(openedErr) : openedErr[i] = ""

\* the catalog a single call of IndexVariableData builds from the empty
\* catalog for the list of all files ingested so far
SingleIngest ==
    CatalogOf(IndexVariableDataFrom(
        [datainfo |-> DataObjectInfo(""), files |-> <<>>, axes |-> <<>>,
         variables |-> <<>>, err |-> "", thrown |-> FALSE],
        EmptyCatalog, BaseDir, opened, 1).st)

\* C34: the catalog built by successive calls of IndexVariableData that
\* raised no error is the catalog a single call builds for the
\* concatenation of their file lists: the same file ids, axes and variant
\* ids, location index and collection attributes
IngestionIsIncremental ==
    NoErrorSoFar => Catalog = SingleIngest

\* C34 witness: a second call without error added files to the files of a
\* first, and the axis lev holds two variants
TwoCallsWithoutError ==
    /\ NoErrorSoFar
    /\ sBegin >= 1
    /\ Len(m_vecFileInfo) > sBegin
    /\ Len(opened) = Len(m_vecFileInfo)
    /\ "lev" \in AxisNames
    /\ Len(AxisOf("lev").m_vecSubAxis) = 2

----------------------------------------------------------------------------
(* A file ingested again *)

\* the ids-1 of the files before the last file reached that are the same
\* file and were ingested without error
EarlierCopies ==
    { i \in 1..Len(preLast.files) : opened[i] = fileLast /\ openedErr[i] = "" }

\* the last file reached was given an id and had been ingested before
Reingested ==
    /\ fileLast.valid
    /\ Len(m_vecFileInfo) = Len(preLast.files) + 1
    /\ EarlierCopies # {}

\* C35: a file ingested again after an ingestion without error gets a new
\* file id and a FileInfo with the axis map of the earlier one, no error is
\* returned, no axis gains a variant and no location index changes
ReingestionAddsFileOnly ==
    Reingested =>
        /\ strError = ""
        /\ m_vecFileInfo[Len(m_vecFileInfo)].key = to_string(Len(preLast.files))
        /\ SubSeq(m_vecFileInfo, 1, Len(preLast.files)) = preLast.files
        /\ \A i \in EarlierCopies :
               LastFileInfo.m_mapAxisSubAxis = preLast.files[i].val.m_mapAxisSubAxis
        /\ m_vecAxisInfo = preLast.axes
        /\ m_vecVariableInfo = preLast.variables
        /\ m_datainfo = preLast.datainfo

\* C35 witness: the first of three files was ingested again as the third,
\* after the second had brought lev a second variant
FirstFileReingested ==
    /\ Reingested
    /\ Len(m_vecFileInfo) = 3
    /\ EarlierCopies = {1}
    /\ Len(AxisOf("lev").m_vecSubAxis) = 2
    /\ m_vecVariableInfo # <<>>


\* ---------------------------------------------------------------------
\* Axes first seen without a coordinate variable
\* ---------------------------------------------------------------------

\* the last file reached supplies, for its dimension d, a variable of the
\* dimension's name over exactly that dimension
WellFormedDimVar(d) ==
    /\ get_var(fileLast, fileLast.dims[d].name) # 0
    /\ Len(DimVar(d).dims) = 1
    /\ DimVar(d).dims[1] = fileLast.dims[d].name

\* the dimension loop of the last file reached came to dimension d
LastCameTo(d) ==
    \A e \in 1..(d - 1) :
        fileLast.dims[e].name \in DOMAIN LastFileInfo.m_mapAxisSubAxis

\* C36: when the last file reached supplies a variable named after an axis
\* known before the file and recorded without a type, ingestion ends with
\* an error and the axis is what it was before the file; when the variable
\* is a well-formed coordinate variable and the dimension loop came to that
\* dimension, the error is the type-mismatch error.  In every state the
\* variants of one axis are either all untyped or all typed, and an axis
\* recorded without a type holds untyped variants only.
CoordinateLessAxisStaysSo ==
    /\ \A d \in 1..Len(fileLast.dims) :
        ( /\ KnownAxis(d)
          /\ PreAxis(fileLast.dims[d].name).nctype = "NoType"
          /\ get_var(fileLast, fileLast.dims[d].name) # 0 )
        => /\ strError # ""
           /\ AxisOf(fileLast.dims[d].name) = PreAxis(fileLast.dims[d].name)
           /\ (WellFormedDimVar(d) /\ LastCameTo(d))
              => strError = "ERROR: Dimension variable type mismatch.  Possible duplicate dimension name in dataset."
    /\ \A A \in AxisNames :
        \A s, t \in 1..Len(AxisOf(A).m_vecSubAxis) :
            /\ (AxisOf(A).m_vecSubAxis[s].val.nctype = "NoType")
                 = (AxisOf(A).m_vecSubAxis[t].val.nctype = "NoType")
            /\ AxisOf(A).nctype = "NoType"
                 => AxisOf(A).m_vecSubAxis[s].val.nctype = "NoType"

\* C36 witness: the type comparison ended the ingestion of a file whose
\* well-formed coordinate variable names an axis that holds an untyped
\* variant from an earlier file
CoordinateVariableAfterBareAxis ==
    /\ strError = "ERROR: Dimension variable type mismatch.  Possible duplicate dimension name in dataset."
    /\ \E d \in 1..Len(fileLast.dims) :
        /\ KnownAxis(d)
        /\ PreAxis(fileLast.dims[d].name).nctype = "NoType"
        /\ Len(PreAxis(fileLast.dims[d].name).m_vecSubAxis) >= 1
        /\ WellFormedDimVar(d)
        /\ LastCameTo(d)


\* ---------------------------------------------------------------------
\* Every indexed variable is locatable
\* ---------------------------------------------------------------------

\* C37: in every state, those left by an error exit or an exception
\* included, each entry of the variables vector has at least one group of
\* axis names and each group has at least one entry from a tuple of variant
\* ids to a file id.
EveryVariableLocatable ==
    \A v \in 1..Len(m_vecVariableInfo) :
        /\ DOMAIN LocationsOf(v) # {}
        /\ \A names \in DOMAIN LocationsOf(v) :
               DOMAIN LocationsOf(v)[names] # {}

\* C37 witness: ingestion left through an error exit of the loop over the
\* variables of a file, all dimensions of the file being recorded, with a
\* variable in the catalog
ErrorExitWithVariable ==
    /\ strError # ""
    /\ ~thrown
    /\ fileLast.valid
    /\ \A d \in 1..Len(fileLast.dims) :
           fileLast.dims[d].name \in DOMAIN LastFileInfo.m_mapAxisSubAxis
    /\ Len(m_vecVariableInfo) >= 1


\* ---------------------------------------------------------------------
\* FromNcVar in check mode
\* ---------------------------------------------------------------------

\* the sighting var carries an attribute other than units that the entry
\* holds with another value, or holds in neither of its maps
SightingCarriesMismatch(doi, var) ==
    \E a \in 1..Len(var.atts) :
        /\ var.atts[a][1] # "units"
        /\ \/ /\ var.atts[a][1] \notin DOMAIN doi.keyatts
              /\ var.atts[a][1] \notin DOMAIN doi.otheratts
           \/ /\ var.atts[a][1] \in DOMAIN doi.keyatts
              /\ doi.keyatts[var.atts[a][1]] # var.atts[a][2]
           \/ /\ var.atts[a][1] \in DOMAIN doi.otheratts
              /\ doi.otheratts[var.atts[a][1]] # var.atts[a][2]

\* C38: FromNcVar in check mode, applied to any entity of the catalog and
\* any variable of a file on disk, returns the entity with every field as
\* it was, whether it succeeds, returns an error or raises the exception;
\* when the variable has the entity's name and carries an attribute, key or
\* other, with another value than the recorded one or with a name recorded
\* in neither map, it returns an error.  In ingestion, a repeat sighting of
\* a variable that carries such an attribute ends the call with an error,
\* and a repeat sighting of a variable or of an axis leaves the name, type,
\* units and both attribute maps of the entry as they were.
CheckModeNeverMutatesAndRejects ==
    /\ \A doi \in EntitiesOf(Catalog) : \A ncFile \in disk :
        ncFile.valid =>
        \A v \in 1..Len(ncFile.vars) :
            /\ FromNcVar(doi, ncFile.vars[v], TRUE).doi = doi
            /\ ( /\ ncFile.vars[v].name = doi.name
                 /\ SightingCarriesMismatch(doi, ncFile.vars[v]) )
               => FromNcVar(doi, ncFile.vars[v], TRUE).err # ""
    /\ \A v \in 1..Len(fileLast.vars) :
        RepeatSighting(v) =>
            /\ DoiOf(VarOf(fileLast.vars[v].name))
                 = DoiOf(PreVar(fileLast.vars[v].name))
            /\ SightingCarriesMismatch(PreVar(fileLast.vars[v].name),
                                       fileLast.vars[v])
               => strError # ""
    /\ \A d \in 1..Len(fileLast.dims) :
        KnownAxis(d) =>
            DoiOf(AxisOf(fileLast.dims[d].name))
              = DoiOf(PreAxis(fileLast.dims[d].name))

\* C38 witness: the attribute loop in check mode ended the ingestion of a
\* file whose variable, of the recorded type and units and with the
\* recorded key attributes, carries an attribute outside the key names that
\* the entry holds in neither map
UnrecordedOtherAttributeSeen ==
    /\ strError = "ERROR: Variable has inconsistent appearance of attribute across files"
    /\ ~thrown
    /\ \E v \in 1..Len(fileLast.vars) :
        /\ RepeatSighting(v)
        /\ fileLast.vars[v].type = PreVar(fileLast.vars[v].name).nctype
        /\ fileLast.vars[v].units = PreVar(fileLast.vars[v].name).units
        /\ VarOf(fileLast.vars[v].name) = PreVar(fileLast.vars[v].name)
        /\ \E a \in 1..Len(fileLast.vars[v].atts) :
            /\ fileLast.vars[v].atts[a][1] \notin VarKeyNames
            /\ fileLast.vars[v].atts[a][1] \notin
                    DOMAIN PreVar(fileLast.vars[v].name).otheratts
        /\ \A a \in 1..Len(fileLast.vars[v].atts) :
            fileLast.vars[v].atts[a][1] \in VarKeyNames
            => /\ fileLast.vars[v].atts[a][1] \in
                    DOMAIN PreVar(fileLast.vars[v].name).keyatts
               /\ PreVar(fileLast.vars[v].name).keyatts[fileLast.vars[v].atts[a][1]]
                    = fileLast.vars[v].atts[a][2]

\* a repeat sighting rejected for the value of an attribute outside the key
\* names: the attribute loop in check mode ended the ingestion of a
\* file whose variable, of the recorded type and units, carries an
\* attribute outside the key names with another value than the entry's
OtherAttributeMismatchSeen ==
    /\ strError = "ERROR: Variable has inconsistent value of attribute across files"
    /\ ~thrown
    /\ \E v \in 1..Len(fileLast.vars) :
        /\ RepeatSighting(v)
        /\ fileLast.vars[v].type = PreVar(fileLast.vars[v].name).nctype
        /\ fileLast.vars[v].units = PreVar(fileLast.vars[v].name).units
        /\ \E a \in 1..Len(fileLast.vars[v].atts) :
            /\ fileLast.vars[v].atts[a][1] \in
                    DOMAIN PreVar(fileLast.vars[v].name).otheratts
            /\ PreVar(fileLast.vars[v].name).otheratts[fileLast.vars[v].atts[a][1]]
                    # fileLast.vars[v].atts[a][2]
        /\ \A a \in 1..Len(fileLast.vars[v].atts) :
            fileLast.vars[v].atts[a][1] \in DOMAIN PreVar(fileLast.vars[v].name).keyatts
            => PreVar(fileLast.vars[v].name).keyatts[fileLast.vars[v].atts[a][1]]
                    = fileLast.vars[v].atts[a][2]

====
